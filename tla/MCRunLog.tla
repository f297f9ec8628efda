------------------------------ MODULE MCRunLog ------------------------------
(* One invocation with an id of its own, or two with one inherited id.     *)
EXTENDS RunLog, TLC

CONSTANTS r1, r2, idA

MCRequest == {r1, r2}
OneRequest == {r1}
OneRunId == {idA}

OwnId == r1 :> idA
SharedId == (r1 :> idA) @@ (r2 :> idA)

\* What is in the files depends on neither the reads nor the counts they return.
WithoutReads == <<phase, events, cursor, job, file, disturbed, cut, crashes>>

\* Exchanging the invocations that share an id changes nothing.
SwapShared == Permutations({r1, r2})
=============================================================================
