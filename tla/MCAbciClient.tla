---------------------------- MODULE MCAbciClient ----------------------------
(* Values of the constants of AbciClient for model checking.               *)
EXTENDS AbciClientProps, TLC

Power(one, two) == [a \in Addresses |-> IF a = 1 THEN one ELSE IF a = 2 THEN two ELSE 0]

\* Validator 1 alone has two thirds of the power; validator 2 has not.
BigSmall == Power(3, 1)
OnlyOne == Power(1, 0)

InitBigSmall == {[validators |-> BigSmall, params |-> NoUpdate]}
InitOnlyOne == {[validators |-> OnlyOne, params |-> NoUpdate]}
InitAny == {[validators |-> v, params |-> NoUpdate] : v \in {BigSmall, NoPower}}

\* A negative --block-time.
SystemClock == -1

NoChange == {NoResponse}
Change(a, power) == [NoResponse EXCEPT !.updates[a] = power]
\* Updates that UpdateState refuses, a validator that leaves, one that has no
\* client, and vote extensions switched off or from an earlier height on.
Params(height) == [NoResponse EXCEPT !.params = height]
KeepOrRefuse == {NoResponse, Params(-1)}
KeepOrFail == {NoResponse, Change(1, -1), Params(-1), Change(2, 0), Change(3, 1), Params(0), Params(2)}

\* A validator is replaced.
KeepOrReplace == {NoResponse, [NoResponse EXCEPT !.updates[2] = 0, !.updates[3] = 1]}

SomeMisbehaviours == {[address |-> 3, type |-> "DuplicateVote"],
                      [address |-> 2, type |-> "DuplicateVote"],
                      [address |-> 2, type |-> "Lunatic"]}

BigDown == {<<1, FALSE>>}
UpOrDown == {1} \X BOOLEAN

HandlerSymmetry == Permutations(Handlers)
=============================================================================
