---------------------------- MODULE MCFrontEnds ----------------------------
(* FrontEnds with one record of every kind, alone or beside another one,   *)
(* and simulations that take each of the routes.                           *)
EXTENDS FrontEnds

CONSTANTS i1, i2, x1

Plain ==
  [requested |-> "other", declared |-> "absent", reported |-> "absent",
   known |-> "absent", token |-> FALSE, effect |-> "low_risk_actuation",
   mode |-> "none", receipts |-> {}, evidence |-> {},
   outcome |-> "absent", status |-> "absent"]

\* Every effect with and without an approval mode, every action by itself,
\* one the event hides, and a health only the capability knows.
MCRecords ==
  {[Plain EXCEPT !.effect = effect, !.mode = mode] :
     effect \in EffectClasses, mode \in Modes} \cup
  {[Plain EXCEPT !.requested = action] : action \in ActionTypes} \cup
  {[Plain EXCEPT !.requested = "absent", !.declared = "unlock_door"],
   [Plain EXCEPT !.declared = "unlock_door"],
   [Plain EXCEPT !.effect = "high_risk_actuation",
                 !.requested = "export_raw_video"],
   [Plain EXCEPT !.known = "degraded"], [Plain EXCEPT !.evidence = {x1}]}

Null1 == [Plain EXCEPT !.receipts = Null]

\* The tool input of a record as it is: none of the fields of a context.
AsItIs ==
  [action |-> "absent", class |-> "absent", health |-> "absent",
   mode |-> "absent"]

Asked(ctx) ==
  [readable |-> TRUE, device |-> FALSE, baseline |-> TRUE, input |-> AsItIs,
   ctx |-> ctx, size |-> NoSize, policyError |-> FALSE, writeLog |-> TRUE]

Shell1(program, marks) ==
  [tool |-> "Bash", program |-> program, marks |-> marks,
   protectedBranch |-> FALSE, secretOutput |-> FALSE]

Denied == Asked(Shell1("sudo", {}))

MCRequests ==
  {Denied, Asked(Shell1("other", {})),
   [Denied EXCEPT !.size = Limit], [Denied EXCEPT !.size = Limit + 1],
   [Denied EXCEPT !.policyError = TRUE], [Denied EXCEPT !.baseline = FALSE],
   [Denied EXCEPT !.readable = FALSE], [Denied EXCEPT !.writeLog = FALSE]}

MCQueues ==
  {[i \in Items |-> IF i = i1 THEN r ELSE Nothing] : r \in MCRecords} \cup
  {[i \in Items |-> IF i = i1 THEN r ELSE Null1] :
     r \in {Plain, [Plain EXCEPT !.effect = "high_risk_actuation"]}}

ByDevice(input) ==
  [Denied EXCEPT !.device = TRUE, !.policyError = TRUE, !.input = input]

\* Any queue with a simulation of the context of its record, a harmless and
\* a risky one with a simulation of less, one queue with the other routes.
MCStarts ==
  {[queue |-> q, request |-> ByDevice(ContextOf(q[i1]))] : q \in MCQueues} \cup
  [queue : {[i \in Items |-> IF i = i1 THEN r ELSE Nothing] :
              r \in {[Plain EXCEPT !.effect = "observe"],
                     [Plain EXCEPT !.effect = "high_risk_actuation"]}},
   request : {ByDevice(AsItIs),
              ByDevice([AsItIs EXCEPT !.class = "high_risk_actuation"])}] \cup
  [queue : {[i \in Items |-> IF i = i1 THEN Plain ELSE Nothing]},
   request : MCRequests]
=============================================================================
