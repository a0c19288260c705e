----------------------------- MODULE MCAsyncOps -----------------------------
(* Small instances of AsyncOps: o1 has a blocking body and o2 a suspend    *)
(* one; between them the instances deliver both as promise and as callback.*)
EXTENDS AsyncOps
CONSTANTS f1, f2, o1, o2

OneFeature  == [o \in Ops |-> f1]
TwoFeatures == [o \in Ops |-> IF o = o1 THEN f1 ELSE f2]

MixedBody == [o \in Ops |-> IF o = o1 THEN "blocking" ELSE "suspend"]

BlockingPromise == [o \in Ops |-> IF o = o1 THEN "promise" ELSE "callback"]
SuspendPromise  == [o \in Ops |-> IF o = o1 THEN "callback" ELSE "promise"]
=============================================================================
