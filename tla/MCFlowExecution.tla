--------------------------- MODULE MCFlowExecution ---------------------------
(* FlowExecution on small graphs: a line a -> b and a fan a -> b, c; and    *)
(* flows of one step, a of main and x of side by one user, y of alien by    *)
(* another.                                                                 *)
EXTENDS FlowExecution, TLC

CONSTANTS main, side, alien, a, b, c, x, y, t1, user, other

None == {}
OneTrigger == {t1}
TriggersMain == [t \in Triggers |-> main]
Owners == [f \in Flows |-> IF f = alien THEN other ELSE user]

MainOnly == {main}
MainAndSide == {main, side}
ThreeFlows == {main, side, alien}
StepA == {a}
StepX == {x}
StepsOfLine == {a, b}
StepsOfFan == {a, b, c}
StepsOfBoth == {a, x}
StepsOfThree == {a, x, y}
HomeOf == [s \in Steps |-> IF s = x THEN side ELSE IF s = y THEN alien ELSE main]
FirstStep == [f \in Flows |-> CHOOSE s \in Steps \ {b, c} : HomeOf[s] = f]
Line == [s \in Steps |-> IF s = a THEN {b} ELSE {}]
Fan == [s \in Steps |-> IF s = a THEN {b, c} ELSE {}]
Alone == [s \in Steps |-> {}]
=============================================================================
