-------------------------- MODULE DeathRecipients ---------------------------
(***************************************************************************)
(* linkToDeath and unlinkToDeath of a generated proxy.  The proxy keeps a  *)
(* vector of binder recipients, each for a recipient of the caller, under  *)
(* a mutex that is held during the call to the binder object: the vector   *)
(* holds the only strong reference to a binder recipient.  The binder      *)
(* object (libhwbinder, external) has a list of weak ones; when the        *)
(* service has died it takes the list, refuses to link from then on, and   *)
(* reports the death to those of the list that still exist.                *)
(***************************************************************************)
EXTENDS Integers, Sequences, SequencesExt

CONSTANTS
    Threads,      \* of the client
    Recipients,   \* hidl_death_recipient objects of the client
    MaxLinks      \* bound: calls of linkToDeath

ASSUME DeathAssumption == MaxLinks \in Nat

VARIABLES
    call,         \* by thread: the step it is at, of which binder recipient, the iterator
    mutex,        \* _hidl_mMutex: threads in the critical section
    mDeathRecipients,
    link,         \* binder recipients made so far: recipient, what the calls answered
    obituaries,   \* of the binder object: a list
    dead,         \* the service has died
    obitsSent,    \* the binder object knows
    reporting     \* the list taken, not reported yet

vars == <<call, mutex, mDeathRecipients, link, obituaries, dead, obitsSent, reporting>>

Idle == [op |-> "idle", of |-> 0, at |-> 0]
Links == DOMAIN link

New(r) == [recipient |-> r, linked |-> FALSE, unlinked |-> FALSE, erased |-> FALSE, told |-> 0]

Init ==
    /\ call = [t \in Threads |-> Idle]
    /\ mutex = {}
    /\ mDeathRecipients = <<>>
    /\ link = <<>>
    /\ obituaries = <<>>
    /\ dead = FALSE /\ obitsSent = FALSE
    /\ reporting = <<>>

\* (A fault: the binder recipient is not kept.)
LinkToDeathForgets(t, r) ==
    /\ call[t] = Idle /\ mutex = {}
    /\ Len(link) < MaxLinks
    /\ link' = Append(link, New(r))
    /\ mutex' = {t}
    /\ call' = [call EXCEPT ![t] = [op |-> "link", of |-> Len(link) + 1, at |-> 0]]
    /\ UNCHANGED <<mDeathRecipients, obituaries, dead, obitsSent, reporting>>

\* linkToDeath: a new binder recipient is recorded before the remote call.
LinkToDeath(t, r) ==
    /\ call[t] = Idle /\ mutex = {}
    /\ Len(link) < MaxLinks
    /\ link' = Append(link, New(r))
    /\ mDeathRecipients' = Append(mDeathRecipients, Len(link) + 1)
    /\ mutex' = {t}
    /\ call' = [call EXCEPT ![t] = [op |-> "link", of |-> Len(link) + 1, at |-> 0]]
    /\ UNCHANGED <<obituaries, dead, obitsSent, reporting>>

Return(t) ==
    /\ call' = [call EXCEPT ![t] = Idle]
    /\ mutex' = {}

\* remote()->linkToDeath, and the answer; the record stays when it fails.
RemoteLink(t) ==
    /\ call[t].op = "link"
    /\ IF obitsSent THEN UNCHANGED <<obituaries, link>>
       ELSE /\ obituaries' = Append(obituaries, call[t].of)
            /\ link' = [link EXCEPT ![call[t].of].linked = TRUE]
    /\ Return(t)
    /\ UNCHANGED <<mDeathRecipients, dead, obitsSent, reporting>>

\* Where the reverse iterator stops: at the last entry of the recipient.
Found(i, r) ==
    /\ link[mDeathRecipients[i]].recipient = r
    /\ \A j \in DOMAIN mDeathRecipients : link[mDeathRecipients[j]].recipient = r => j <= i

\* unlinkToDeath: without an entry it answers false.
UnlinkToDeath(t, r) ==
    /\ call[t] = Idle /\ mutex = {}
    /\ \E i \in DOMAIN mDeathRecipients :
        /\ Found(i, r)
        /\ call' = [call EXCEPT ![t] = [op |-> "unlink", of |-> mDeathRecipients[i], at |-> i]]
    /\ mutex' = {t}
    /\ UNCHANGED <<mDeathRecipients, link, obituaries, dead, obitsSent, reporting>>

\* The binder object takes the entry from its list.
Unlisted(n) ==
    \E i \in DOMAIN obituaries : obituaries[i] = n /\ obituaries' = RemoveAt(obituaries, i)

\* (A fault: the answer of a dead object is taken for a success.)
RemoteUnlinkAnyway(t) ==
    /\ call[t].op = "unlink"
    /\ call[t].of \in ToSet(obituaries) => Unlisted(call[t].of)
    /\ call[t].of \notin ToSet(obituaries) => obituaries' = obituaries
    /\ link' = [link EXCEPT ![call[t].of].unlinked = TRUE]
    /\ call' = [call EXCEPT ![t].op = "erase"]
    /\ UNCHANGED <<mutex, mDeathRecipients, dead, obitsSent, reporting>>

\* remote()->unlinkToDeath; it fails when the object is dead or does not know the recipient.
RemoteUnlink(t) ==
    /\ call[t].op = "unlink"
    /\ IF obitsSent \/ call[t].of \notin ToSet(obituaries) THEN UNCHANGED <<obituaries, link>>
       ELSE /\ Unlisted(call[t].of)
            /\ link' = [link EXCEPT ![call[t].of].unlinked = TRUE]
    /\ call' = [call EXCEPT ![t].op = "erase"]
    /\ UNCHANGED <<mutex, mDeathRecipients, dead, obitsSent, reporting>>

\* (A fault: one past the entry, it.base() for it.base() - 1.)
EraseNext(t) ==
    /\ call[t].op = "erase"
    /\ LET at == call[t].at
       IN mDeathRecipients' = RemoveAt(mDeathRecipients,
                                       IF at < Len(mDeathRecipients) THEN at + 1 ELSE at)
    /\ link' = [link EXCEPT ![call[t].of].erased = TRUE]
    /\ Return(t)
    /\ UNCHANGED <<obituaries, dead, obitsSent, reporting>>

\* The entry goes, whatever the remote object answered.
Erase(t) ==
    /\ call[t].op = "erase"
    /\ mDeathRecipients' = RemoveAt(mDeathRecipients, call[t].at)
    /\ link' = [link EXCEPT ![call[t].of].erased = TRUE]
    /\ Return(t)
    /\ UNCHANGED <<obituaries, dead, obitsSent, reporting>>

\* The service may die at any time.
Die ==
    /\ ~dead
    /\ dead' = TRUE
    /\ UNCHANGED <<call, mutex, mDeathRecipients, link, obituaries, obitsSent, reporting>>

\* The binder object is told and takes its list.
SendObituary ==
    /\ dead /\ ~obitsSent
    /\ obitsSent' = TRUE
    /\ reporting' = obituaries /\ obituaries' = <<>>
    /\ UNCHANGED <<call, mutex, mDeathRecipients, link, dead>>

\* serviceDied of the recipient, if the binder recipient still exists: while it is in the
\* vector, or in the hands of a thread.
ReportOneDeath ==
    /\ reporting # <<>>
    /\ LET n == Head(reporting)
       IN link' = IF n \in ToSet(mDeathRecipients) THEN [link EXCEPT ![n].told = @ + 1] ELSE link
    /\ reporting' = Tail(reporting)
    /\ UNCHANGED <<call, mutex, mDeathRecipients, obituaries, dead, obitsSent>>

Serve(t) == RemoteLink(t) \/ RemoteUnlink(t) \/ Erase(t)

Next ==
    \/ \E t \in Threads : \/ \E r \in Recipients : LinkToDeath(t, r) \/ UnlinkToDeath(t, r)
                          \/ Serve(t)
    \/ Die \/ SendObituary \/ ReportOneDeath

Fairness == /\ \A t \in Threads : WF_vars(Serve(t))
            /\ WF_vars(SendObituary) /\ WF_vars(ReportOneDeath)

Spec == Init /\ [][Next]_vars /\ Fairness

-----------------------------------------------------------------------------
BinderRecipient == [recipient : Recipients, linked : BOOLEAN, unlinked : BOOLEAN,
                    erased : BOOLEAN, told : Nat]

\* The variables have their types, and all lists are of binder recipients that were made.
TypeOK ==
    /\ call \in [Threads -> [op : {"idle", "link", "unlink", "erase"}, of : Nat, at : Nat]]
    /\ mutex \subseteq Threads
    /\ link \in Seq(BinderRecipient)
    /\ mDeathRecipients \in Seq(Links) /\ obituaries \in Seq(Links) /\ reporting \in Seq(Links)
    /\ dead \in BOOLEAN /\ obitsSent \in BOOLEAN

\* Whoever the binder object is going to tell of the death is in the vector of the proxy:
\* the binder recipient would not exist otherwise and its recipient never hear of it, nor could
\* unlinkToDeath find it (push_back before the remote call, erase(it.base()-1) after it).
LinkedIsRecorded ==
    \A n \in ToSet(obituaries) : n \in ToSet(mDeathRecipients)

\* Nobody is told of the death twice for a link, nor after unlinkToDeath has answered true; and
\* as long as the service is not known to be dead, unlinkToDeath answers true for a recipient as
\* often as it was linked, although failed links are kept and several links of one recipient
\* look the same.
LinksAreBalanced ==
    /\ \A n \in Links : link[n].told <= IF link[n].unlinked THEN 0 ELSE 1
    /\ ~obitsSent => \A n \in ToSet(mDeathRecipients) :
                        \/ link[n].linked /\ ~link[n].unlinked
                        \/ \E t \in Threads : call[t].of = n

\* A recipient whose link succeeded hears of the death of the service, unless unlinkToDeath took
\* it away; it may do so after the binder object took its list, and answers false then.
DeathIsReported ==
    \A n \in 1..MaxLinks :
        (n \in Links /\ link[n].linked /\ dead)
            ~> (n \in Links /\ (link[n].told = 1 \/ link[n].erased))
=============================================================================
