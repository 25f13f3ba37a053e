---------------------------- MODULE ServedCorpus ----------------------------
(***************************************************************************)
(* What the corpus promises its readers, with the stores, the lease and    *)
(* the steps of the refresh job taken away: for each document, either one  *)
(* projection is served or none is.                                        *)
(*                                                                         *)
(* A projection is never replaced in place.  It is withdrawn first, and    *)
(* what is served afterwards is a content the guardrail let through and no *)
(* older than anything served before.                                      *)
(***************************************************************************)
EXTENDS Naturals

CONSTANTS Docs, Blocked

VARIABLES
    served,   \* served[d]: the revisions a search sees, Nothing if none
    newest    \* newest[d]: the newest revisions ever served

Nothing == [meta |-> 0, text |-> 0]

Init ==
    /\ served = [d \in Docs |-> Nothing]
    /\ newest = [d \in Docs |-> Nothing]

Serve(d) ==
    /\ served[d] = Nothing
    /\ newest'[d].meta >= newest[d].meta
    /\ newest'[d].text >= newest[d].text
    /\ newest'[d].text \notin Blocked
    /\ newest' = [newest EXCEPT ![d] = newest'[d]]
    /\ served' = [served EXCEPT ![d] = newest'[d]]

\* Re-ingestion, a failure, a tombstone or the TTL: any number at once.
Hide ==
    /\ \E S \in SUBSET Docs :
          served' = [d \in Docs |-> IF d \in S THEN Nothing ELSE served[d]]
    /\ UNCHANGED newest

Next == Hide \/ \E d \in Docs : Serve(d)

Spec == Init /\ [][Next]_<<served, newest>>
=============================================================================
