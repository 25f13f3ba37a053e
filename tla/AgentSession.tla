----------------------------- MODULE AgentSession ----------------------------
(***************************************************************************)
(* Turns of the ADK agent: agent/callbacks.py around the model calls and   *)
(* agent/tools.py inside them.                                             *)
(*                                                                         *)
(* A turn screens the prompt, calls the model, screens the reply, may run  *)
(* a tool and go round again, and ends with one audit record.  The three   *)
(* callbacks talk to each other through the session's state, which         *)
(* outlives the turn.  What a tool may do for whom is in FrontDoors.       *)
(*                                                                         *)
(* The runtime (when it calls what, and that state and user texts stay in  *)
(* the session) is external, as are the guardrail's verdicts and texts: it *)
(* returns the redacted text it was given, none, or one of its own in      *)
(* which, as in the redactor's, nothing personal is left.                  *)
(***************************************************************************)
EXTENDS Naturals

CONSTANTS
    Users,          \* each with a session of their own
    MaxTurns,       \* bound, of each user: turns of the session
    MaxRounds       \* bound: model calls of one turn

ASSUME AgentAssumption ==
    /\ MaxTurns \in [Users -> Nat] /\ MaxRounds \in Nat \ {0}

Texts == {"plain", "personal"}
Redact(text) == IF text = "personal" THEN "masked" ELSE text

\* Session state before any callback has written to it.
EmptyState == [prompt |-> <<0, {}>>, response |-> <<0, "">>, blocked |-> FALSE]

VARIABLES
    said,       \* user texts of the session, all part of every later request
    kept,       \* session state: last prompt and response (turn, text), blocked
    turn,       \* the running turn: step, number, round, draft, call, stopped
    trail       \* audit records, with what really happened in the turn

vars == <<said, kept, turn, trail>>

(***************************************************************************)
(* Slips: one mistake each.                                                *)
(***************************************************************************)
Unredacted(text) == {text, "rewritten"}
KeepsLastResponse(u, ok, safe) == kept[u]
ResponseUnflagged(u, ok, safe) == [kept[u] EXCEPT !.response = <<turn[u].n, safe>>]
-----------------------------------------------------------------------------
Init ==
    /\ said = [u \in Users |-> {}]
    /\ kept = [u \in Users |-> EmptyState]
    /\ turn = [u \in Users |->
                 [step |-> "idle", n |-> 0, round |-> 0, draft |-> "", call |-> FALSE,
                  stopped |-> FALSE]]
    /\ trail = {}

\* Neither callback clears the flag once a turn was blocked.
Flag(k, ok) == k.blocked \/ ~ok

\* A port that raises ends the turn where it is, with no record of it.
Aborts(u) ==
    /\ turn' = [turn EXCEPT ![u].step = "idle"]
    /\ UNCHANGED <<said, kept, trail>>

\* _redact_then_screen: the guardrail's text where it has one.
SafeText(text) == {Redact(text), "rewritten"}

\* _request_text, redacted: every text of the session is in the request.
SafePrompt(u) == {Redact(x) : x \in said[u]}

\* The audit record of a turn, from the session's state.
Event(u) ==
    [user |-> u, n |-> turn[u].n, stopped |-> turn[u].stopped,
     decision |-> IF kept[u].blocked THEN "BLOCKED" ELSE "ALLOWED",
     prompt |-> kept[u].prompt, response |-> kept[u].response]

\* The user speaks.
Speak(u, text) ==
    /\ turn[u].step = "idle" /\ turn[u].n < MaxTurns[u]
    /\ said' = [said EXCEPT ![u] = @ \cup {text}]
    /\ turn' = [turn EXCEPT ![u] =
                  [step |-> "prompt", n |-> @.n + 1, round |-> 1, draft |-> "",
                   call |-> FALSE, stopped |-> FALSE]]
    /\ UNCHANGED <<kept, trail>>

\* before_model_callback.  It stashes the redacted request, or what the guardrail
\* makes of it; the model gets the request itself.
BeforeModel(u) ==
    /\ turn[u].step = "prompt"
    /\ \/ \E ok \in BOOLEAN, safe \in {SafePrompt(u), {"rewritten"}} :
            /\ kept' = [kept EXCEPT ![u].prompt = <<turn[u].n, safe>>,
                                    ![u].blocked = Flag(kept[u], ok)]
            /\ turn' = [turn EXCEPT ![u].step = IF ok THEN "model" ELSE "close",
                                    ![u].stopped = @ \/ ~ok]
            /\ UNCHANGED <<said, trail>>
       \/ Aborts(u)

\* The model answers in words, with a tool call, or both.
Model(u) ==
    /\ turn[u].step = "model"
    /\ \/ \E text \in Texts \cup {""}, call \in BOOLEAN :
            /\ call => turn[u].round < MaxRounds
            /\ turn' = [turn EXCEPT ![u].step = "reply", ![u].draft = text, ![u].call = call]
            /\ UNCHANGED <<said, kept, trail>>
       \/ Aborts(u)

Stashed(u, ok, safe) ==
    [kept[u] EXCEPT !.response = <<turn[u].n, safe>>,
                    !.blocked = Flag(kept[u], ok)]

\* after_model_callback.  A replaced response is words only: a tool call that
\* came with it is gone.
AfterModel(u) ==
    /\ turn[u].step = "reply"
    /\ \/ \E ok \in BOOLEAN, safe \in SafeText(turn[u].draft) :
            LET same == ok /\ safe = turn[u].draft
            IN  /\ kept' = [kept EXCEPT ![u] = Stashed(u, ok, safe)]
                /\ turn' = [turn EXCEPT ![u].step = IF same /\ turn[u].call THEN "tool" ELSE "close",
                                        ![u].draft = IF ok THEN safe ELSE "refusal",
                                        ![u].stopped = @ \/ ~ok]
                /\ UNCHANGED <<said, trail>>
       \/ Aborts(u)

\* search_kb, answer_grounded: an answer for the next model call, or a refusal of
\* the caller or of a port, which raises.
Tool(u) ==
    /\ turn[u].step = "tool"
    /\ \/ /\ turn' = [turn EXCEPT ![u].step = "prompt", ![u].round = @ + 1]
          /\ UNCHANGED <<said, kept, trail>>
       \/ Aborts(u)

\* after_agent_callback
Close(u) ==
    /\ turn[u].step = "close"
    /\ \/ /\ trail' = trail \cup {Event(u)}
          /\ turn' = [turn EXCEPT ![u].step = "idle"]
          /\ UNCHANGED <<said, kept>>
       \/ Aborts(u)

Next ==
    \E u \in Users :
        \/ \E text \in Texts : Speak(u, text)
        \/ BeforeModel(u)
        \/ Model(u)
        \/ AfterModel(u)
        \/ Tool(u)
        \/ Close(u)

Spec == Init /\ [][Next]_vars
-----------------------------------------------------------------------------
(***************************************************************************)
(* Properties.                                                             *)
(***************************************************************************)
TypeOK ==
    /\ said \in [Users -> SUBSET Texts]
    /\ \A u \in Users :
        /\ kept[u].blocked \in BOOLEAN
        /\ turn[u].step \in {"idle", "prompt", "model", "reply", "tool", "close"}
        /\ turn[u].n \in 0 .. MaxTurns[u] /\ turn[u].round \in 0 .. MaxRounds
        /\ turn[u].draft \in {"", "plain", "personal", "masked", "rewritten", "refusal"}
        /\ turn[u].step \in {"tool", "close"} => turn[u].draft # "personal"

\* A turn in which the guardrail stopped a prompt or a reply is recorded
\* BLOCKED, whichever of its model calls was stopped; a record never holds
\* text as the user or the model wrote it.  (_BLOCKED_KEY, _redact_then_screen)
AuditNeverUnderstates ==
    \A r \in trail :
        /\ r.stopped => r.decision = "BLOCKED"
        /\ "personal" \notin r.prompt[2] \cup {r.response[2]}

\* An ALLOWED record pairs the prompt and the response of its own turn, across
\* aborted turns and several model calls; only a BLOCKED one may show the
\* response of an earlier turn.  (_LAST_PROMPT_KEY, _LAST_RESPONSE_KEY)
AllowedRecordsPair ==
    \A r \in trail :
        r.decision = "ALLOWED" =>
            r.prompt[1] = r.n /\ r.response[1] = r.n
=============================================================================
