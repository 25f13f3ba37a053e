------------------------- MODULE ConversationProofs --------------------------
(***************************************************************************)
(* The agent's turns and the stored conversations, for every number of     *)
(* users, people, turns and model calls.                                   *)
(***************************************************************************)
EXTENDS AgentSession, Sessions, TLAPS

-----------------------------------------------------------------------------
(***************************************************************************)
(* What the audit trail of the agent says, for every number of users,      *)
(* turns and model calls.                                                  *)
(*                                                                         *)
(* The record of a turn is made from the session's state, which earlier    *)
(* turns have written too.  The invariant says how far that state speaks   *)
(* of the running turn at each of its steps: once a model call is allowed  *)
(* the prompt is its own, and once a reply is accepted the response is.    *)
(***************************************************************************)
Drafts == {"", "plain", "personal", "masked", "rewritten", "refusal"}

Turn == [step : {"idle", "prompt", "model", "reply", "tool", "close"},
         n : Nat, round : Nat, draft : Drafts, call : BOOLEAN, stopped : BOOLEAN]

Clean == {"plain", "masked", "rewritten"}

State == [prompt : Nat \X SUBSET Clean,
          response : Nat \X (Drafts \ {"personal"}), blocked : BOOLEAN]

\* The session state and the running turn are records of the right shape, no
\* turn or round is past its bound, a call that may run a tool is in a round
\* that leaves another, and a draft no callback has seen is only ever a reply's.
Shapes ==
    /\ said \in [Users -> SUBSET Texts]
    /\ kept \in [Users -> State]
    /\ turn \in [Users -> Turn]
    /\ \A u \in Users :
        /\ turn[u].n <= MaxTurns[u]
        /\ turn[u].round <= MaxRounds
        /\ turn[u].step \in {"reply", "tool"} /\ turn[u].call => turn[u].round < MaxRounds
        /\ turn[u].step = "tool" => turn[u].call
        /\ turn[u].step \notin {"idle", "reply"} => turn[u].draft # "personal"

\* How far the state of the session is that of the running turn.
Own(u) ==
    /\ turn[u].stopped => kept[u].blocked
    /\ turn[u].step \in {"model", "reply", "tool"} => kept[u].prompt[1] = turn[u].n
    /\ turn[u].step = "close" /\ ~ kept[u].blocked =>
           kept[u].prompt[1] = turn[u].n /\ kept[u].response[1] = turn[u].n

AInv ==
    /\ Shapes
    /\ \A u \in Users : Own(u)
    /\ AuditNeverUnderstates /\ AllowedRecordsPair
-----------------------------------------------------------------------------
(* The redactor *)

\* What the redactor and the guardrail make of a text is never the text as the
\* user or the model wrote it.
LEMMA SafeIsClean ==
    ASSUME NEW text \in Drafts
    PROVE  SafeText(text) \subseteq Drafts \ {"personal"}
BY DEF SafeText, Redact, Drafts

\* The prompt that is stashed is every text of the session, redacted.
LEMMA PromptIsClean ==
    ASSUME NEW u \in Users, said \in [Users -> SUBSET Texts]
    PROVE  SafePrompt(u) \in SUBSET Clean
BY DEF SafePrompt, Redact, Texts, Clean

-----------------------------------------------------------------------------
(* AInv is inductive *)

\* Writing one user's turn, or one user's session state.
LEMMA TurnWritten ==
    ASSUME turn \in [Users -> Turn], NEW u \in Users, NEW t \in Turn,
           turn' = [turn EXCEPT ![u] = t]
    PROVE  /\ turn' \in [Users -> Turn] /\ turn'[u] = t
           /\ \A v \in Users \ {u} : turn'[v] = turn[v]
OBVIOUS

\* Writing the state of one user leaves that of the others.
LEMMA StateWritten ==
    ASSUME kept \in [Users -> State], NEW u \in Users, NEW k \in State,
           kept' = [kept EXCEPT ![u] = k]
    PROVE  /\ kept' \in [Users -> State] /\ kept'[u] = k
           /\ \A v \in Users \ {u} : kept'[v] = kept[v]
OBVIOUS

\* Nothing said, kept or recorded yet.
LEMMA AInit == Init => AInv
<1> SUFFICES ASSUME Init PROVE AInv
    OBVIOUS
<1>0. FALSE \in BOOLEAN
      BY Zenon
<1>1. EmptyState \in State /\ ~ EmptyState.blocked
  <2>1. /\ EmptyState = [prompt |-> <<0, {}>>, response |-> <<0, "">>, blocked |-> FALSE]
        /\ <<0, {}>> \in Nat \X SUBSET Clean
        /\ <<0, "">> \in Nat \X (Drafts \ {"personal"})
        BY DEF EmptyState, Drafts
  <2>2. QED
        BY <1>0, <2>1 DEF State
<1>2. /\ kept \in [Users -> State]
      /\ \A u \in Users : kept[u] = EmptyState
      BY <1>1 DEF Init
<1>3. /\ turn \in [Users -> Turn]
      /\ \A u \in Users : turn[u].step = "idle" /\ turn[u].n = 0 /\ turn[u].round = 0
      /\ \A u \in Users : ~ turn[u].stopped
  <2> DEFINE t0 == [step |-> "idle", n |-> 0, round |-> 0, draft |-> "", call |-> FALSE,
                    stopped |-> FALSE]
  <2>1. t0 \in Turn
        BY <1>0 DEF Turn, Drafts
  <2>2. turn = [u \in Users |-> t0]
        BY DEF Init
  <2>3. t0.step = "idle" /\ t0.n = 0 /\ t0.round = 0 /\ ~ t0.stopped
        OBVIOUS
  <2> HIDE DEF t0
  <2>4. QED
        BY <2>1, <2>2, <2>3
<1>4. \A u \in Users : 0 <= MaxTurns[u] /\ 0 <= MaxRounds
      BY AgentAssumption
<1>5. said \in [Users -> SUBSET Texts]
      BY DEF Init
<1>6. Shapes
      BY <1>2, <1>3, <1>4, <1>5 DEF Init, Shapes
<1>7. QED
      BY <1>3, <1>6 DEF Init, AInv, Own, AuditNeverUnderstates, AllowedRecordsPair

\* Every step preserves AInv; a step of one user leaves the others' sessions as
\* they are.
LEMMA AStep == AInv /\ [Next]_vars => AInv'
<1> SUFFICES ASSUME AInv, [Next]_vars PROVE AInv'
    OBVIOUS
<1> USE DEF AInv, AuditNeverUnderstates, AllowedRecordsPair
<1>0. /\ \A u \in Users : MaxTurns[u] \in Nat /\ turn[u] \in Turn /\ kept[u] \in State
      /\ turn \in [Users -> Turn] /\ kept \in [Users -> State]
      /\ MaxRounds \in Nat /\ 1 <= MaxRounds
      BY AgentAssumption DEF Shapes
<1>1. ASSUME NEW u \in Users, NEW text \in Texts, Speak(u, text) PROVE AInv'
  <2>0. turn[u] \in Turn /\ kept[u] \in State
        BY <1>0
  <2> DEFINE t == [step |-> "prompt", n |-> turn[u].n + 1, round |-> 1, draft |-> "",
                   call |-> FALSE, stopped |-> FALSE]
  <2>1. turn[u].n + 1 \in Nat /\ turn[u].n + 1 <= MaxTurns[u] /\ MaxTurns[u] \in Nat
    <3>1. turn[u].n \in Nat
          BY <2>0 DEF Turn
    <3>2. turn[u].n < MaxTurns[u] /\ MaxTurns[u] \in Nat
          BY <1>0, <1>1 DEF Speak
    <3>3. QED
          BY <3>1, <3>2
  <2>2. FALSE \in BOOLEAN
        BY Zenon
  <2>3. t \in Turn
        BY <2>1, <2>2 DEF Turn, Drafts
  <2>4. /\ ~ t.stopped /\ t.step = "prompt" /\ t.round = 1 /\ t.n = turn[u].n + 1
        /\ t.draft = ""
        OBVIOUS
  <2>5. turn' = [turn EXCEPT ![u] = t]
        BY <1>1 DEF Speak
  <2> HIDE DEF t
  <2>6. /\ turn' \in [Users -> Turn] /\ turn'[u] = t
        /\ \A v \in Users \ {u} : turn'[v] = turn[v]
        BY <1>0, <2>3, <2>5, TurnWritten
  <2>7. /\ said' = [said EXCEPT ![u] = @ \cup {text}]
        /\ UNCHANGED <<kept, trail>>
        BY <1>1 DEF Speak
  <2>8. said' \in [Users -> SUBSET Texts]
        BY <2>7 DEF Shapes
  <2>9. Shapes' /\ \A v \in Users : Own(v)'
    <3>1. Shapes'
          BY <1>0, <2>1, <2>4, <2>6, <2>7, <2>8 DEF Shapes
    <3>2. Own(u)'
          BY <2>4, <2>6 DEF Own
    <3>3. \A v \in Users \ {u} : Own(v)'
          BY <2>6, <2>7 DEF Own
    <3>4. QED
          BY <3>1, <3>2, <3>3
  <2>10. QED
        BY <2>7, <2>8, <2>9
<1>2. ASSUME NEW u \in Users, Aborts(u) PROVE AInv'
  <2> DEFINE t == [turn[u] EXCEPT !.step = "idle"]
  <2>1. turn' = [turn EXCEPT ![u] = t] /\ UNCHANGED <<said, kept, trail>>
        BY <1>0, <1>2 DEF Aborts
  <2>2. /\ t \in Turn /\ t.step = "idle" /\ t.n = turn[u].n /\ t.round = turn[u].round
        /\ t.stopped <=> turn[u].stopped
        BY <1>0 DEF Turn
  <2> HIDE DEF t
  <2>3. /\ turn' \in [Users -> Turn] /\ turn'[u] = t
        /\ \A v \in Users \ {u} : turn'[v] = turn[v]
        BY <1>0, <2>1, <2>2, TurnWritten
  <2>4. Shapes' /\ \A v \in Users : Own(v)'
        BY <1>0, <2>1, <2>2, <2>3 DEF Shapes, Own
  <2>5. QED
        BY <2>1, <2>4
<1>3. ASSUME NEW u \in Users, BeforeModel(u), ~ Aborts(u) PROVE AInv'
  <2>0. turn[u] \in Turn /\ kept[u] \in State
        BY <1>0
  <2>1. PICK ok \in BOOLEAN, safe \in {SafePrompt(u), {"rewritten"}} :
            /\ kept' = [kept EXCEPT ![u].prompt = <<turn[u].n, safe>>,
                                    ![u].blocked = Flag(kept[u], ok)]
            /\ turn' = [turn EXCEPT ![u].step = IF ok THEN "model" ELSE "close",
                                    ![u].stopped = @ \/ ~ ok]
            /\ UNCHANGED <<said, trail>>
        BY <1>3 DEF BeforeModel
  <2> DEFINE k == [kept[u] EXCEPT !.prompt = <<turn[u].n, safe>>,
                                  !.blocked = Flag(kept[u], ok)]
             t == [turn[u] EXCEPT !.step = IF ok THEN "model" ELSE "close",
                                  !.stopped = @ \/ ~ ok]
  <2>2. kept' = [kept EXCEPT ![u] = k] /\ turn' = [turn EXCEPT ![u] = t]
        BY <1>0, <2>1 DEF Turn, State
  <2>3. /\ turn[u].n \in Nat
        /\ safe \in SUBSET Clean
        /\ turn[u].draft # "personal"
        BY <1>0, <1>3, PromptIsClean DEF BeforeModel, Shapes, Turn, Clean
  <2>4. /\ Flag(kept[u], ok) \in BOOLEAN
        /\ (turn[u].stopped \/ ~ ok) \in BOOLEAN
        BY Zenon DEF Flag
  <2>5. k \in State /\ k.prompt[1] = turn[u].n
        BY <2>0, <2>3, <2>4 DEF State
  <2>6. k.blocked <=> kept[u].blocked \/ ~ ok
        BY <2>0 DEF Flag, State
  <2>7. t \in Turn
        BY <2>0, <2>4 DEF Turn
  <2>8. /\ t.step = (IF ok THEN "model" ELSE "close")
        /\ t.n = turn[u].n /\ t.round = turn[u].round /\ t.draft = turn[u].draft
        /\ t.stopped <=> turn[u].stopped \/ ~ ok
        BY <2>0 DEF Turn
  <2> HIDE DEF k, t
  <2>9. /\ turn' \in [Users -> Turn] /\ turn'[u] = t
        /\ \A v \in Users \ {u} : turn'[v] = turn[v]
        BY <1>0, <2>2, <2>7, TurnWritten
  <2>10. /\ kept' \in [Users -> State] /\ kept'[u] = k
         /\ \A v \in Users \ {u} : kept'[v] = kept[v]
        BY <1>0, <2>2, <2>5, StateWritten
  <2>11. Own(u)'
        BY <2>5, <2>6, <2>8, <2>9, <2>10 DEF Own
  <2>12. Shapes'
        BY <1>0, <2>1, <2>3, <2>8, <2>9, <2>10 DEF Shapes
  <2>13. QED
        BY <2>1, <2>9, <2>10, <2>11, <2>12 DEF Own
<1>4. ASSUME NEW u \in Users, Model(u), ~ Aborts(u) PROVE AInv'
  <2>0. turn[u] \in Turn /\ kept[u] \in State
        BY <1>0
  <2>1. PICK text \in Texts \cup {""}, call \in BOOLEAN :
            /\ call => turn[u].round < MaxRounds
            /\ turn' = [turn EXCEPT ![u].step = "reply", ![u].draft = text, ![u].call = call]
            /\ UNCHANGED <<said, kept, trail>>
        BY <1>4 DEF Model
  <2> DEFINE t == [turn[u] EXCEPT !.step = "reply", !.draft = text, !.call = call]
  <2>2. turn' = [turn EXCEPT ![u] = t] /\ turn[u].step = "model"
        BY <1>0, <1>4, <2>1 DEF Turn, Model
  <2>3. t \in Turn
        BY <2>0 DEF Turn, Texts, Drafts
  <2>4. /\ t.step = "reply" /\ t.n = turn[u].n /\ t.round = turn[u].round
        /\ t.call => call
        /\ t.stopped <=> turn[u].stopped
        BY <2>0 DEF Turn
  <2> HIDE DEF t
  <2>5. /\ turn' \in [Users -> Turn] /\ turn'[u] = t
        /\ \A v \in Users \ {u} : turn'[v] = turn[v]
        BY <1>0, <2>2, <2>3, TurnWritten
  <2>6. Own(u)'
        BY <2>1, <2>2, <2>4, <2>5 DEF Own
  <2>7. Shapes'
        BY <1>0, <2>1, <2>4, <2>5 DEF Shapes
  <2>8. QED
        BY <2>1, <2>5, <2>6, <2>7 DEF Own
<1>5. ASSUME NEW u \in Users, AfterModel(u), ~ Aborts(u) PROVE AInv'
  <2>0. turn[u] \in Turn /\ kept[u] \in State
        BY <1>0
  <2>1. PICK ok \in BOOLEAN, safe \in SafeText(turn[u].draft) :
            LET same == ok /\ safe = turn[u].draft
            IN  /\ kept' = [kept EXCEPT ![u] = Stashed(u, ok, safe)]
                /\ turn' = [turn EXCEPT ![u].step = IF same /\ turn[u].call THEN "tool" ELSE "close",
                                        ![u].draft = IF ok THEN safe ELSE "refusal",
                                        ![u].stopped = @ \/ ~ ok]
                /\ UNCHANGED <<said, trail>>
        BY <1>5 DEF AfterModel
  <2> DEFINE same == ok /\ safe = turn[u].draft
             t == [turn[u] EXCEPT !.step = IF same /\ turn[u].call THEN "tool" ELSE "close",
                                  !.draft = IF ok THEN safe ELSE "refusal",
                                  !.stopped = @ \/ ~ ok]
             k == Stashed(u, ok, safe)
  <2>2. turn[u].step = "reply" /\ turn[u].n \in Nat /\ turn[u].draft \in Drafts
        BY <1>0, <1>5 DEF AfterModel, Turn
  <2>3. safe \in Drafts \ {"personal"}
        BY <2>2, SafeIsClean
  <2>4. Flag(kept[u], ok) \in BOOLEAN /\ (turn[u].stopped \/ ~ ok) \in BOOLEAN
        BY Zenon DEF Flag
  <2>5. kept' = [kept EXCEPT ![u] = k] /\ turn' = [turn EXCEPT ![u] = t]
        BY <1>0, <2>1 DEF Turn
  <2>6. k \in State
        BY <2>0, <2>2, <2>3, <2>4 DEF Stashed, State
  <2>7. k.response[1] = turn[u].n /\ k.prompt = kept[u].prompt
        BY <1>0 DEF Stashed, State
  <2>8. k.blocked <=> kept[u].blocked \/ ~ ok
        BY <2>0 DEF Stashed, State, Flag
  <2>9. t \in Turn
        BY <2>0, <2>3, <2>4 DEF Turn, Drafts
  <2>10. /\ t.n = turn[u].n /\ t.round = turn[u].round
         /\ t.draft = (IF ok THEN safe ELSE "refusal")
         /\ t.call <=> turn[u].call
         /\ t.step \in {"tool", "close"}
         /\ t.step = "tool" => turn[u].call
         /\ t.stopped <=> turn[u].stopped \/ ~ ok
        BY <2>0 DEF Turn
  <2> HIDE DEF k, t, same
  <2>11. /\ turn' \in [Users -> Turn] /\ turn'[u] = t
         /\ \A v \in Users \ {u} : turn'[v] = turn[v]
        BY <1>0, <2>5, <2>9, TurnWritten
  <2>12. /\ kept' \in [Users -> State] /\ kept'[u] = k
         /\ \A v \in Users \ {u} : kept'[v] = kept[v]
        BY <1>0, <2>5, <2>6, StateWritten
  <2>13. Own(u)'
        BY <2>2, <2>7, <2>8, <2>10, <2>11, <2>12 DEF Own
  <2>14. Shapes'
        BY <1>0, <2>1, <2>2, <2>3, <2>10, <2>11, <2>12 DEF Shapes
  <2>15. QED
        BY <2>1, <2>11, <2>12, <2>13, <2>14 DEF Own
<1>6. ASSUME NEW u \in Users, Tool(u), ~ Aborts(u) PROVE AInv'
  <2>0. turn[u] \in Turn /\ kept[u] \in State
        BY <1>0
  <2> DEFINE t == [turn[u] EXCEPT !.step = "prompt", !.round = @ + 1]
  <2>1. /\ turn[u].step = "tool"
        /\ UNCHANGED <<said, kept, trail>>
        BY <1>6 DEF Tool
  <2>2. turn' = [turn EXCEPT ![u] = t]
        BY <1>0, <1>6 DEF Tool, Turn
  <2>3. /\ t \in Turn /\ t.step = "prompt" /\ t.n = turn[u].n /\ t.round = turn[u].round + 1
        /\ t.draft = turn[u].draft
        /\ t.stopped <=> turn[u].stopped
    <3>1. turn[u].round + 1 \in Nat
          BY <2>0 DEF Turn
    <3>2. QED
          BY <2>0, <3>1 DEF Turn
  <2> HIDE DEF t
  <2>4. turn[u].round + 1 <= MaxRounds
    <3>1. turn[u].call /\ turn[u].round < MaxRounds
          BY <2>1 DEF Shapes
    <3>2. turn[u].round \in Nat
          BY <1>0 DEF Turn
    <3>3. QED
          BY <1>0, <3>1, <3>2
  <2>5. /\ turn' \in [Users -> Turn] /\ turn'[u] = t
        /\ \A v \in Users \ {u} : turn'[v] = turn[v]
        BY <1>0, <2>2, <2>3, TurnWritten
  <2>6. Own(u)'
        BY <2>1, <2>3, <2>5 DEF Own
  <2>7. Shapes'
        BY <1>0, <2>1, <2>3, <2>4, <2>5 DEF Shapes
  <2>8. QED
        BY <2>1, <2>5, <2>6, <2>7 DEF Own
<1>7. ASSUME NEW u \in Users, Close(u), ~ Aborts(u) PROVE AInv'
  <2> DEFINE t == [turn[u] EXCEPT !.step = "idle"]
  <2>1. /\ turn[u].step = "close"
        /\ trail' = trail \cup {Event(u)}
        /\ UNCHANGED <<said, kept>>
        BY <1>7 DEF Close
  <2>2. turn' = [turn EXCEPT ![u] = t]
        BY <1>0, <1>7 DEF Close
  <2>3. /\ t \in Turn /\ t.step = "idle" /\ t.n = turn[u].n /\ t.round = turn[u].round
        /\ t.stopped <=> turn[u].stopped
        BY <1>0 DEF Turn
  <2> HIDE DEF t
  <2>4. /\ turn' \in [Users -> Turn] /\ turn'[u] = t
        /\ \A v \in Users \ {u} : turn'[v] = turn[v]
        BY <1>0, <2>2, <2>3, TurnWritten
  <2>5. Shapes' /\ \A v \in Users : Own(v)'
        BY <1>0, <2>1, <2>3, <2>4 DEF Shapes, Own
  <2>6. /\ Event(u).stopped => Event(u).decision = "BLOCKED"
        /\ Event(u).decision = "ALLOWED" =>
               Event(u).prompt[1] = Event(u).n /\ Event(u).response[1] = Event(u).n
        BY <2>1 DEF Event, Own
  <2>7. "personal" \notin Event(u).prompt[2] \cup {Event(u).response[2]}
    <3>1. /\ kept[u].prompt[2] \subseteq Clean
          /\ kept[u].response[2] \in Drafts \ {"personal"}
          BY <1>0 DEF State
    <3>2. "personal" \notin Clean
          BY DEF Clean
    <3>3. Event(u).prompt = kept[u].prompt /\ Event(u).response = kept[u].response
          BY DEF Event
    <3>4. QED
          BY <3>1, <3>2, <3>3
  <2>8. QED
        BY <2>1, <2>5, <2>6, <2>7
<1>8. CASE UNCHANGED vars
      BY <1>8 DEF vars, Shapes, Own
<1>9. QED
      BY <1>1, <1>2, <1>3, <1>4, <1>5, <1>6, <1>7, <1>8 DEF Next
-----------------------------------------------------------------------------
(* Theorems *)

\* Once a model call is allowed the prompt kept in the session is the running
\* turn's own, and once its reply is accepted the response is, whatever earlier
\* turns left there (agent/callbacks.py).
THEOREM AgentInvariant == Spec => []AInv
BY AInit, AStep, PTL DEF Spec

\* The session state and the running turn keep their types, no turn runs past
\* its model calls, and past after_model_callback no draft is as it was written.
THEOREM AgentTypeCorrect == Spec => []TypeOK
<1>1. ASSUME AInv, NEW u \in Users
      PROVE  /\ kept[u].blocked \in BOOLEAN
             /\ turn[u].step \in {"idle", "prompt", "model", "reply", "tool", "close"}
             /\ turn[u].n \in 0 .. MaxTurns[u] /\ turn[u].round \in 0 .. MaxRounds
             /\ turn[u].draft \in {"", "plain", "personal", "masked", "rewritten", "refusal"}
             /\ turn[u].step \in {"tool", "close"} => turn[u].draft # "personal"
  <2>1. kept[u] \in State /\ turn[u] \in Turn
        BY <1>1 DEF AInv, Shapes
  <2>2. MaxTurns[u] \in Nat /\ MaxRounds \in Nat
        BY AgentAssumption
  <2>3. turn[u].n <= MaxTurns[u] /\ turn[u].round <= MaxRounds
        BY <1>1 DEF AInv, Shapes
  <2>4. turn[u].n \in Nat /\ turn[u].round \in Nat
        BY <2>1 DEF Turn
  <2>5. /\ kept[u].blocked \in BOOLEAN
        /\ turn[u].step \in {"idle", "prompt", "model", "reply", "tool", "close"}
        /\ turn[u].draft \in {"", "plain", "personal", "masked", "rewritten", "refusal"}
        BY <2>1 DEF State, Turn, Drafts
  <2>8. turn[u].step \in {"tool", "close"} => turn[u].draft # "personal"
        BY <1>1 DEF AInv, Shapes
  <2>6. turn[u].n \in 0 .. MaxTurns[u] /\ turn[u].round \in 0 .. MaxRounds
        BY <2>2, <2>3, <2>4
  <2>7. QED
        BY <2>5, <2>6, <2>8
<1>2. AInv => TypeOK
      BY <1>1 DEF AInv, Shapes, TypeOK
<1>3. QED
      BY AgentInvariant, <1>2, PTL

\* A turn the guardrail stopped, at whichever of its model calls, is recorded
\* BLOCKED, and no record holds text that was not redacted: the flag is only
\* ever raised (before_model_callback, after_model_callback).
THEOREM AgentAuditNeverUnderstates == Spec => []AuditNeverUnderstates
<1>1. AInv => AuditNeverUnderstates
      BY DEF AInv
<1>2. QED
      BY AgentInvariant, <1>1, PTL

\* An ALLOWED record pairs the prompt and the response of its own turn, however
\* many turns before it were aborted half-way (after_agent_callback).
THEOREM AgentRecordsPair == Spec => []AllowedRecordsPair
<1>1. AInv => AllowedRecordsPair
      BY DEF AInv
<1>2. QED
      BY AgentInvariant, <1>1, PTL

-----------------------------------------------------------------------------
(***************************************************************************)
(* Conversations stay their owner's, for any people, cases and bounds.     *)
(*                                                                         *)
(* A local id may come to name someone else's session after a restart, so  *)
(* nothing can be said of the ids people hold; what is invariant is said   *)
(* of the rows: a row holds only messages of its owner, and a managed id   *)
(* names its row's owner.                                                  *)
(***************************************************************************)
RowsAreOwn ==
    \A sid \in DOMAIN store :
        /\ store[sid].log \in Seq({store[sid].owner})
        /\ managed => store[sid].owner = sid[1]

SInv == RowsAreOwn /\ shown \in [People -> SUBSET People] /\ HistoryIsOwn

\* No session, nothing shown.
LEMMA SInvInit == SInit => SInv
BY DEF SInit, SInv, RowsAreOwn, HistoryIsOwn

\* What history returns of a row was written by its owner.
LEMMA MessagesAreOwn ==
    ASSUME RowsAreOwn, NEW sid \in DOMAIN store
    PROVE  Messages(sid) \subseteq {store[sid].owner}
<1> DEFINE log == store[sid].log
<1>1. log \in Seq({store[sid].owner})
      BY DEF RowsAreOwn
<1>2. Messages(sid) = {log[i] : i \in DOMAIN log}
      BY DEF Messages, ToSet
<1> HIDE DEF log
<1>3. QED
      BY <1>1, <1>2

\* Whoever owns an id owns the row it names now.
LEMMA OwnersOwnTheRow ==
    ASSUME RowsAreOwn, NEW sid \in DOMAIN store, NEW p, Owns(sid, p)
    PROVE  store[sid].owner = p
BY DEF RowsAreOwn, Owns, RowIsOf

\* Every step keeps each message with the person who wrote it.
LEMMA SInvStep == SInv /\ [SNext]_svars => SInv'
<1> SUFFICES ASSUME SInv, [SNext]_svars PROVE SInv'
    OBVIOUS
<1> USE DEF SInv
<1>1. ASSUME NEW p \in People, NEW c \in Cases \cup {NoCase}, Create(p, c) PROVE SInv'
  <2> DEFINE new == NewId(p, c)
  <2>1. /\ DOMAIN store' = DOMAIN store \cup {new} /\ new \notin DOMAIN store
        /\ store'[new] = [owner |-> p, log |-> <<>>]
        /\ \A sid \in DOMAIN store : store'[sid] = store[sid]
        BY <1>1 DEF Create
  <2>2. managed => new[1] = p
        BY DEF NewId
  <2>3. <<>> \in Seq({p})
        OBVIOUS
  <2>4. UNCHANGED <<managed, shown>>
        BY <1>1 DEF Create
  <2> HIDE DEF new
  <2>5. store'[new].owner = p /\ store'[new].log = <<>>
        BY <2>1
  <2>6. ASSUME NEW sid \in DOMAIN store'
        PROVE  /\ store'[sid].log \in Seq({store'[sid].owner})
               /\ managed' => store'[sid].owner = sid[1]
    <3>1. CASE sid = new
          BY <2>2, <2>3, <2>4, <2>5, <3>1
    <3>2. CASE sid # new
          BY <2>1, <2>4, <2>6, <3>2 DEF RowsAreOwn
    <3>3. QED
          BY <3>1, <3>2
  <2>7. QED
        BY <2>4, <2>6 DEF RowsAreOwn, HistoryIsOwn
<1>2. ASSUME NEW p \in People, NEW sid \in known, Write(sid, p) PROVE SInv'
  <2>1. /\ sid \in DOMAIN store /\ Owns(sid, p)
        /\ store' = [store EXCEPT ![sid].log = Append(@, p)]
        /\ UNCHANGED <<managed, shown>>
        BY <1>2 DEF Write
  <2>2. store[sid].owner = p /\ store[sid].log \in Seq({p})
        BY <2>1, OwnersOwnTheRow DEF RowsAreOwn
  <2>3. Append(store[sid].log, p) \in Seq({p})
        BY <2>2
  <2>4. /\ DOMAIN store' = DOMAIN store
        /\ store'[sid] = [store[sid] EXCEPT !.log = Append(@, p)]
        /\ \A other \in DOMAIN store \ {sid} : store'[other] = store[other]
        BY <2>1
  <2>5. RowsAreOwn'
        BY <2>1, <2>2, <2>3, <2>4 DEF RowsAreOwn
  <2>6. QED
        BY <2>1, <2>5 DEF HistoryIsOwn
<1>3. ASSUME NEW p \in People, NEW sid \in known, Read(sid, p) PROVE SInv'
  <2>1. /\ sid \in DOMAIN store /\ Owns(sid, p)
        /\ shown' = [shown EXCEPT ![p] = @ \cup Messages(sid)]
        /\ UNCHANGED <<managed, store>>
        BY <1>3 DEF Read
  <2>2. Messages(sid) \subseteq {p}
        BY <2>1, OwnersOwnTheRow, MessagesAreOwn
  <2>3. shown' \in [People -> SUBSET People] /\ HistoryIsOwn'
        BY <2>1, <2>2 DEF HistoryIsOwn
  <2>4. QED
        BY <2>1, <2>3 DEF RowsAreOwn
<1>4. CASE Reboot
      BY <1>4 DEF Reboot, RowsAreOwn, HistoryIsOwn
<1>5. CASE UNCHANGED svars
      BY <1>5 DEF svars, RowsAreOwn, HistoryIsOwn
<1>6. QED
      BY <1>1, <1>2, <1>3, <1>4, <1>5 DEF SNext

\* A person is only shown what they wrote, with whatever ids they hold, across
\* restarts that let a new session take an old one's id: the local adapter asks
\* the row for its owner, and a managed id carries its owner's name
\* (_assert_session_owner, LocalSessionAdapter.get).
THEOREM HistoryStaysOwn == SSpec => []HistoryIsOwn
<1>1. SInv => HistoryIsOwn
      BY DEF SInv
<1>2. QED
      BY SInvInit, SInvStep, <1>1, PTL DEF SSpec
=============================================================================
