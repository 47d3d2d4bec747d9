------------------------------- MODULE Caller -------------------------------
(* A program that calls the library's pure functions one at a time: call is *)
(* the last call, its arguments and the results that were returned.         *)
VARIABLE call

Is(fn) == call.fn = fn
NoCall == [fn |-> "none"]
NoneCalled == call = NoCall
Idle == Is("none")
Called(result) == call' = result
Forget == ~Idle /\ Called(NoCall)
=============================================================================
