------------------------ MODULE DeathRecipientProofs ------------------------
(***************************************************************************)
(* The records of a proxy and the list of the binder object agree, for     *)
(* every number of threads, of recipients and of links.                    *)
(***************************************************************************)
EXTENDS DeathRecipients, SequenceTheorems, TLAPS

In(n, s) == \E i \in DOMAIN s : s[i] = n
Distinct(s) == \A i, j \in DOMAIN s : s[i] = s[j] => i = j

(* The mutex is held by the thread that is in the middle of a call.        *)
MutexInv == \A t \in Threads : call[t] # Idle => mutex = {t}

(* The lists name a binder recipient once; the binder object has given its *)
(* list away once it knows of the death, and reports nothing before.       *)
ListInv ==
    /\ Distinct(mDeathRecipients) /\ Distinct(obituaries) /\ Distinct(reporting)
    /\ obitsSent => obituaries = <<>>
    /\ ~obitsSent => reporting = <<>>

(* Who is still to be told was not told, and not unlinked.                 *)
ToldInv ==
    /\ \A n \in Links : In(n, obituaries) \/ In(n, reporting) =>
            link[n].told = 0 /\ ~link[n].unlinked
    /\ \A n \in Links : link[n].told <= IF link[n].unlinked THEN 0 ELSE 1
    /\ ~obitsSent => \A n \in Links : link[n].told = 0

RecordedInv == \A n \in Links : In(n, obituaries) => In(n, mDeathRecipients)

(* What a thread in the middle of a call knows.                            *)
InHand(t) ==
    /\ call[t].op = "link" =>
        /\ call[t].of \in Links /\ ~link[call[t].of].unlinked
        /\ In(call[t].of, mDeathRecipients) /\ ~In(call[t].of, obituaries)
    /\ call[t].op \in {"unlink", "erase"} =>
        /\ call[t].at \in DOMAIN mDeathRecipients
        /\ mDeathRecipients[call[t].at] = call[t].of
    /\ call[t].op = "erase" => ~In(call[t].of, obituaries)

BalanceInv ==
    ~obitsSent => \A n \in Links : In(n, mDeathRecipients) =>
                    \/ link[n].linked /\ ~link[n].unlinked
                    \/ \E t \in Threads : call[t].of = n

IInv ==
    /\ TypeOK
    /\ MutexInv
    /\ ListInv
    /\ ToldInv
    /\ RecordedInv
    /\ \A t \in Threads : InHand(t)
    /\ BalanceInv

-----------------------------------------------------------------------------
(* What the operations on lists do.                                        *)
LEMMA RemoveAtProperties ==
    ASSUME NEW S, NEW s \in Seq(S), NEW i \in DOMAIN s
    PROVE  /\ RemoveAt(s, i) \in Seq(S)
           /\ DOMAIN RemoveAt(s, i) = 1 .. Len(s) - 1
           /\ \A j \in 1 .. Len(s) - 1 : RemoveAt(s, i)[j] = s[IF j < i THEN j ELSE j + 1]
<1>1. DOMAIN s = 1 .. Len(s) /\ Len(s) \in Nat /\ i \in 1 .. Len(s)
  BY LenProperties
<1> DEFINE a == SubSeq(s, 1, i - 1)
           b == SubSeq(s, i + 1, Len(s))
<1>2. a \in Seq(S) /\ Len(a) = i - 1 /\ \A j \in 1 .. i - 1 : a[j] = s[j]
  BY <1>1, SubSeqProperties
<1>3. b \in Seq(S) /\ Len(b) = Len(s) - i /\ \A j \in 1 .. Len(s) - i : b[j] = s[i + j]
  BY <1>1, SubSeqProperties
<1>5. RemoveAt(s, i) = a \o b
  BY DEF RemoveAt
<1> HIDE DEF a, b
<1>. Len(a) + Len(b) = Len(s) - 1
  BY <1>1, <1>2, <1>3
<1>4. /\ a \o b \in Seq(S) /\ Len(a \o b) = Len(s) - 1
      /\ \A j \in 1 .. Len(s) - 1 : (a \o b)[j] = IF j <= i - 1 THEN a[j] ELSE b[j - (i - 1)]
  <2>1. /\ a \o b \in Seq(S) /\ Len(a \o b) = Len(a) + Len(b)
        /\ \A j \in 1 .. Len(a) + Len(b) :
                (a \o b)[j] = IF j <= Len(a) THEN a[j] ELSE b[j - Len(a)]
    BY <1>2, <1>3, ConcatProperties
  <2> QED  BY <2>1, <1>2
<1>6. DOMAIN (a \o b) = 1 .. Len(s) - 1
  BY <1>4, LenProperties
<1>7. ASSUME NEW j \in 1 .. Len(s) - 1
      PROVE  (a \o b)[j] = s[IF j < i THEN j ELSE j + 1]
  <2>1. CASE j < i
    BY <2>1, <1>1, <1>2, <1>4
  <2>2. CASE ~(j < i)
    <3>1. j - (i - 1) \in 1 .. Len(s) - i /\ i + (j - (i - 1)) = j + 1
      BY <2>2, <1>1
    <3>2. (a \o b)[j] = b[j - (i - 1)]
      BY <2>2, <1>1, <1>4
    <3> QED  BY <2>2, <3>1, <3>2, <1>3
  <2> QED  BY <2>1, <2>2
<1> QED  BY <1>4, <1>5, <1>6, <1>7

(* RemoveAt takes away one entry of a list that names none twice.          *)
LEMMA Removed ==
    ASSUME NEW S, NEW s \in Seq(S), NEW i \in DOMAIN s, Distinct(s)
    PROVE  /\ RemoveAt(s, i) \in Seq(S)
           /\ Distinct(RemoveAt(s, i))
           /\ \A n : In(n, RemoveAt(s, i)) <=> In(n, s) /\ n # s[i]
<1> DEFINE r == RemoveAt(s, i)
<1>1. DOMAIN s = 1 .. Len(s) /\ Len(s) \in Nat /\ i \in 1 .. Len(s)
  BY LenProperties
<1>2. /\ r \in Seq(S) /\ DOMAIN r = 1 .. Len(s) - 1
      /\ \A j \in 1 .. Len(s) - 1 : r[j] = s[IF j < i THEN j ELSE j + 1]
  BY RemoveAtProperties
<1> HIDE DEF r
<1> DEFINE at(j) == IF j < i THEN j ELSE j + 1
<1>a. ASSUME NEW j \in 1 .. Len(s) - 1
      PROVE  at(j) \in 1 .. Len(s) /\ at(j) # i /\ r[j] = s[at(j)]
  BY <1>1, <1>2
<1>b. \A j, k \in 1 .. Len(s) - 1 : at(j) = at(k) => j = k
  BY <1>1
<1> HIDE DEF at
<1>3. Distinct(r)
  BY <1>1, <1>2, <1>a, <1>b DEF Distinct
<1>4. ASSUME NEW n, In(n, r)
      PROVE  In(n, s) /\ n # s[i]
  <2>1. PICK j \in 1 .. Len(s) - 1 : r[j] = n
    BY <1>2, <1>4 DEF In
  <2> QED  BY <2>1, <1>1, <1>a DEF In, Distinct
<1>5. ASSUME NEW n, In(n, s), n # s[i]
      PROVE  In(n, r)
  <2>1. PICK k \in 1 .. Len(s) : s[k] = n
    BY <1>1, <1>5 DEF In
  <2>2. k # i
    BY <2>1, <1>5
  <2>3. CASE k < i
    BY <2>1, <2>3, <1>1, <1>2 DEF In
  <2>4. CASE k > i
    <3>1. k - 1 \in 1 .. Len(s) - 1 /\ ~(k - 1 < i) /\ (k - 1) + 1 = k
      BY <2>1, <2>4, <1>1
    <3> QED  BY <2>1, <3>1, <1>2 DEF In
  <2> QED  BY <2>1, <2>2, <2>3, <2>4, <1>1
<1> QED  BY <1>2, <1>3, <1>4, <1>5 DEF r

LEMMA Appended ==
    ASSUME NEW S, NEW s \in Seq(S), NEW e \in S, Distinct(s), ~In(e, s)
    PROVE  /\ Append(s, e) \in Seq(S)
           /\ Distinct(Append(s, e))
           /\ \A n : In(n, Append(s, e)) <=> In(n, s) \/ n = e
<1>1. /\ DOMAIN s = 1 .. Len(s) /\ Len(s) \in Nat
      /\ Append(s, e) \in Seq(S) /\ DOMAIN Append(s, e) = 1 .. Len(s) + 1
      /\ \A i \in 1 .. Len(s) : Append(s, e)[i] = s[i]
      /\ Append(s, e)[Len(s) + 1] = e
  BY AppendProperties, LenProperties
<1>2. Distinct(Append(s, e))
  BY <1>1 DEF Distinct, In
<1>3. ASSUME NEW n
      PROVE  In(n, Append(s, e)) <=> In(n, s) \/ n = e
  BY <1>1 DEF In
<1> QED  BY <1>1, <1>2, <1>3

LEMMA HeadTaken ==
    ASSUME NEW S, NEW s \in Seq(S), s # <<>>, Distinct(s)
    PROVE  /\ Tail(s) \in Seq(S) /\ Head(s) \in S /\ In(Head(s), s)
           /\ Distinct(Tail(s))
           /\ \A n : In(n, Tail(s)) <=> In(n, s) /\ n # Head(s)
<1>1. /\ Len(s) \in Nat \ {0} /\ DOMAIN s = 1 .. Len(s) /\ Head(s) = s[1] /\ Head(s) \in S
      /\ Tail(s) \in Seq(S) /\ DOMAIN Tail(s) = 1 .. Len(s) - 1
      /\ \A i \in 1 .. Len(s) - 1 : Tail(s)[i] = s[i + 1]
  BY HeadTailProperties, LenProperties, EmptySeq
<1>2. Distinct(Tail(s))
  BY <1>1 DEF Distinct
<1>3. ASSUME NEW n, In(n, Tail(s))
      PROVE  In(n, s) /\ n # Head(s)
  BY <1>1, <1>3 DEF In, Distinct
<1>4. ASSUME NEW n, In(n, s), n # Head(s)
      PROVE  In(n, Tail(s))
  <2>1. PICK k \in 1 .. Len(s) : s[k] = n /\ k # 1
    BY <1>1, <1>4 DEF In
  <2>2. k - 1 \in 1 .. Len(s) - 1 /\ (k - 1) + 1 = k
    BY <2>1, <1>1
  <2> QED  BY <2>1, <2>2, <1>1 DEF In
<1> QED  BY <1>1, <1>2, <1>3, <1>4 DEF In

LEMMA Elements ==
    ASSUME NEW S, NEW s \in Seq(S), NEW n, In(n, s)
    PROVE  n \in S
BY LenProperties, ElementOfSeq DEF In

LEMMA ToSetIsIn == \A s, n : n \in ToSet(s) <=> In(n, s)
BY DEF ToSet, In

(* A new binder recipient has the next number; the old ones stay.          *)
LEMMA Grown ==
    ASSUME TypeOK, NEW r \in Recipients, link' = Append(link, New(r))
    PROVE  /\ link' \in Seq(BinderRecipient)
           /\ Len(link) + 1 \in Nat
           /\ Links' = Links \cup {Len(link) + 1} /\ Len(link) + 1 \notin Links
           /\ \A n \in Links : link'[n] = link[n]
           /\ link'[Len(link) + 1] = New(r)
           /\ Seq(Links) \subseteq Seq(Links')
<1>1. New(r) \in BinderRecipient
  BY DEF New, BinderRecipient
<1>2. link \in Seq(BinderRecipient)
  BY DEF TypeOK
<1>3. /\ link' \in Seq(BinderRecipient)
      /\ Len(link) \in Nat /\ DOMAIN link = 1 .. Len(link)
      /\ DOMAIN link' = 1 .. Len(link) + 1
      /\ \A n \in 1 .. Len(link) : link'[n] = link[n]
      /\ link'[Len(link) + 1] = New(r)
  <2>1. /\ link' \in Seq(BinderRecipient) /\ Len(link') = Len(link) + 1
        /\ \A n \in 1 .. Len(link) : link'[n] = link[n]
        /\ link'[Len(link) + 1] = New(r)
    BY <1>1, <1>2, AppendProperties
  <2>2. DOMAIN link' = 1 .. Len(link')
    BY <2>1, LenProperties
  <2> QED  BY <1>2, <2>1, <2>2, LenProperties
<1>4. Links' = Links \cup {Len(link) + 1} /\ Len(link) + 1 \notin Links
  BY <1>3 DEF Links
<1>5. Seq(Links) \subseteq Seq(Links')
  BY <1>4, SeqMonotonic
<1> QED  BY <1>3, <1>4, <1>5 DEF Links

(* A mark on one binder recipient.                                         *)
LEMMA Marked ==
    ASSUME TypeOK, NEW n \in Links, NEW e \in BinderRecipient, link' = [link EXCEPT ![n] = e]
    PROVE  /\ link' \in Seq(BinderRecipient)
           /\ Links' = Links
           /\ \A m \in Links : link'[m] = IF m = n THEN e ELSE link[m]
<1>1. link \in Seq(BinderRecipient)
  BY DEF TypeOK
<1>2. n \in 1 .. Len(link)
  BY <1>1, LenProperties DEF Links
<1>3. link' \in Seq(BinderRecipient)
  BY <1>1, <1>2, ExceptSeq
<1> QED  BY <1>3 DEF Links

LEMMA Fields ==
    ASSUME TypeOK, NEW n \in Links
    PROVE  link[n] \in BinderRecipient
BY ElementOfSeq, LenProperties DEF TypeOK, Links

(* While a thread is in the middle of a call, the others are not.          *)
LEMMA Alone ==
    ASSUME TypeOK, MutexInv, NEW t \in Threads, call[t] # Idle
    PROVE  mutex = {t} /\ \A u \in Threads : u # t => call[u] = Idle
BY DEF MutexInv

LEMMA IdleInHand ==
    ASSUME NEW t \in Threads, call[t] = Idle
    PROVE  InHand(t)
BY DEF InHand, Idle

-----------------------------------------------------------------------------
LEMMA InitInv == Init => IInv
<1> SUFFICES ASSUME Init PROVE IInv
  OBVIOUS
<1>1. link \in Seq(BinderRecipient) /\ Links = {}
  BY EmptySeq DEF Init, Links
<1>2. <<>> \in Seq(Links)
  BY EmptySeq
<1>3. TypeOK
  BY <1>1, <1>2 DEF Init, TypeOK, Idle
<1>4. MutexInv /\ BalanceInv /\ \A t \in Threads : InHand(t)
  BY <1>1, IdleInHand DEF Init, MutexInv, BalanceInv
<1>5. ListInv
  BY DEF Init, ListInv, Distinct
<1>6. ToldInv /\ RecordedInv
  BY <1>1 DEF ToldInv, RecordedInv
<1> QED  BY <1>3, <1>4, <1>5, <1>6 DEF IInv

LEMMA LinkToDeathStep ==
    ASSUME IInv, NEW t \in Threads, NEW r \in Recipients, LinkToDeath(t, r)
    PROVE  IInv'
<1> USE DEF LinkToDeath
<1> DEFINE n == Len(link) + 1
<1>1. /\ TypeOK /\ MutexInv /\ ListInv /\ ToldInv /\ RecordedInv /\ BalanceInv
      /\ \A u \in Threads : call[u] = Idle
  BY DEF IInv, MutexInv
<1>2. /\ link' \in Seq(BinderRecipient) /\ n \in Nat
      /\ Links' = Links \cup {n} /\ n \notin Links
      /\ \A m \in Links : link'[m] = link[m]
      /\ link'[n] = New(r)
      /\ Seq(Links) \subseteq Seq(Links')
  BY <1>1, Grown
<1> HIDE DEF n
<1>3. mDeathRecipients \in Seq(Links) /\ obituaries \in Seq(Links) /\ reporting \in Seq(Links)
  BY <1>1 DEF TypeOK
<1>4. ~In(n, mDeathRecipients) /\ ~In(n, obituaries) /\ ~In(n, reporting)
  BY <1>2, <1>3, Elements
<1>5. mDeathRecipients' = Append(mDeathRecipients, n)
  BY DEF n
<1>6. /\ mDeathRecipients' \in Seq(Links') /\ Distinct(mDeathRecipients')
      /\ \A m : In(m, mDeathRecipients') <=> In(m, mDeathRecipients) \/ m = n
  BY <1>1, <1>2, <1>3, <1>4, <1>5, Appended DEF ListInv
<1>7. /\ call' = [call EXCEPT ![t] = [op |-> "link", of |-> n, at |-> 0]]
      /\ mutex' = {t}
      /\ obituaries' = obituaries /\ reporting' = reporting
      /\ dead' = dead /\ obitsSent' = obitsSent
  BY DEF n
<1>8. /\ call' \in [Threads -> [op : {"idle", "link", "unlink", "erase"}, of : Nat, at : Nat]]
      /\ call'[t] = [op |-> "link", of |-> n, at |-> 0]
      /\ \A u \in Threads : u # t => call'[u] = Idle
  BY <1>1, <1>2, <1>7 DEF TypeOK
<1> HIDE DEF LinkToDeath
<1>9. TypeOK'
  BY <1>1, <1>2, <1>3, <1>6, <1>7, <1>8 DEF TypeOK
<1>10. MutexInv'
  BY <1>7, <1>8 DEF MutexInv, Idle
<1>11. ListInv'
  BY <1>1, <1>6, <1>7 DEF ListInv
<1>12. ToldInv'
  BY <1>1, <1>2, <1>4, <1>7 DEF ToldInv, New
<1>13. RecordedInv'
  BY <1>1, <1>2, <1>4, <1>6, <1>7 DEF RecordedInv
<1>14. ASSUME NEW u \in Threads
       PROVE  InHand(u)'
  <2>1. CASE u = t
    BY <2>1, <1>2, <1>4, <1>6, <1>7, <1>8 DEF InHand, New
  <2>2. CASE u # t
    BY <2>2, <1>8 DEF InHand, Idle
  <2> QED  BY <2>1, <2>2
<1>15. BalanceInv'
  <2> SUFFICES ASSUME ~obitsSent', NEW m \in Links', In(m, mDeathRecipients')
               PROVE  \/ link'[m].linked /\ ~link'[m].unlinked
                      \/ \E u \in Threads : call'[u].of = m
    BY DEF BalanceInv
  <2>1. CASE m = n
    BY <2>1, <1>8
  <2>2. CASE m # n
    <3>1. m \in Links /\ In(m, mDeathRecipients) /\ link'[m] = link[m]
      BY <2>2, <1>2, <1>6
    <3>2. \A u \in Threads : call[u].of # m
      <4>1. DOMAIN link = 1 .. Len(link) /\ m # 0
        BY <1>1, <3>1, LenProperties DEF TypeOK, Links
      <4> QED  BY <4>1, <1>1 DEF Idle
    <3> QED  BY <3>1, <3>2, <1>1, <1>7 DEF BalanceInv
  <2> QED  BY <2>1, <2>2
<1> QED  BY <1>9, <1>10, <1>11, <1>12, <1>13, <1>14, <1>15 DEF IInv

LEMMA RemoteLinkStep ==
    ASSUME IInv, NEW t \in Threads, RemoteLink(t)
    PROVE  IInv'
<1> DEFINE n == call[t].of
<1>1. /\ TypeOK /\ MutexInv /\ ListInv /\ ToldInv /\ RecordedInv /\ BalanceInv
      /\ InHand(t)
  BY DEF IInv
<1>2. /\ call[t].op = "link"
      /\ call' = [call EXCEPT ![t] = Idle] /\ mutex' = {}
      /\ mDeathRecipients' = mDeathRecipients /\ reporting' = reporting
      /\ dead' = dead /\ obitsSent' = obitsSent
  BY DEF RemoteLink, Return
<1>3. \A u \in Threads : u # t => call[u] = Idle
  BY <1>1, <1>2, Alone DEF Idle
<1>4. /\ call' \in [Threads -> [op : {"idle", "link", "unlink", "erase"}, of : Nat, at : Nat]]
      /\ \A u \in Threads : call'[u] = Idle
  BY <1>1, <1>2, <1>3 DEF TypeOK, Idle
<1>5. /\ n \in Links /\ ~link[n].unlinked
      /\ In(n, mDeathRecipients) /\ ~In(n, obituaries)
  BY <1>1, <1>2 DEF InHand
<1>6. /\ MutexInv' /\ \A u \in Threads : InHand(u)'
  BY <1>2, <1>4 DEF MutexInv, InHand, Idle
<1>7. CASE obitsSent
  <2>1. obituaries' = obituaries /\ link' = link /\ Links' = Links
    BY <1>7 DEF RemoteLink, Links
  <2>2. TypeOK' /\ ListInv' /\ ToldInv' /\ RecordedInv' /\ BalanceInv'
    BY <2>1, <1>1, <1>2, <1>4, <1>7
       DEF TypeOK, ListInv, ToldInv, RecordedInv, BalanceInv
  <2> QED  BY <1>6, <2>2 DEF IInv
<1>8. CASE ~obitsSent
  <2>1. obituaries' = Append(obituaries, n) /\ link' = [link EXCEPT ![n].linked = TRUE]
    BY <1>8 DEF RemoteLink
  <2> DEFINE e == [link[n] EXCEPT !.linked = TRUE]
  <2>2. /\ e \in BinderRecipient
        /\ e.linked /\ e.unlinked = link[n].unlinked /\ e.told = link[n].told
    BY <1>1, <1>5, Fields DEF BinderRecipient
  <2>3. link' = [link EXCEPT ![n] = e]
    BY <2>1
  <2> HIDE DEF e, n
  <2>4. /\ link' \in Seq(BinderRecipient) /\ Links' = Links
        /\ \A m \in Links : link'[m] = IF m = n THEN e ELSE link[m]
    BY <1>1, <1>5, <2>2, <2>3, Marked
  <2>5. /\ obituaries' \in Seq(Links) /\ Distinct(obituaries')
        /\ \A m : In(m, obituaries') <=> In(m, obituaries) \/ m = n
    BY <1>1, <1>5, <2>1, Appended DEF TypeOK, ListInv
  <2>6. TypeOK'
    BY <1>1, <1>2, <1>4, <2>4, <2>5 DEF TypeOK
  <2>7. ListInv' /\ RecordedInv'
    BY <1>1, <1>2, <1>5, <1>8, <2>4, <2>5 DEF ListInv, RecordedInv
  <2>8. ToldInv'
    BY <1>1, <1>2, <1>5, <1>8, <2>2, <2>4, <2>5 DEF ToldInv
  <2>9. BalanceInv'
    <3> SUFFICES ASSUME NEW m \in Links, In(m, mDeathRecipients)
                 PROVE  link'[m].linked /\ ~link'[m].unlinked
      BY <1>2, <2>4 DEF BalanceInv
    <3>1. CASE m = n
      BY <3>1, <1>5, <2>2, <2>4
    <3>2. CASE m # n
      <4>1. DOMAIN link = 1 .. Len(link) /\ m # 0
        BY <1>1, LenProperties DEF TypeOK, Links
      <4>2. \A u \in Threads : call[u].of # m
        BY <3>2, <4>1, <1>3 DEF Idle, n
      <4> QED  BY <3>2, <4>2, <1>1, <1>8, <2>4 DEF BalanceInv
    <3> QED  BY <3>1, <3>2
  <2> QED  BY <1>6, <2>6, <2>7, <2>8, <2>9 DEF IInv
<1> QED  BY <1>7, <1>8

LEMMA UnlinkToDeathStep ==
    ASSUME IInv, NEW t \in Threads, NEW r \in Recipients, UnlinkToDeath(t, r)
    PROVE  IInv'
<1>1. /\ TypeOK /\ MutexInv /\ ListInv /\ ToldInv /\ RecordedInv /\ BalanceInv
      /\ mutex = {} /\ \A u \in Threads : call[u] = Idle
  BY DEF IInv, MutexInv, UnlinkToDeath
<1>2. PICK i \in DOMAIN mDeathRecipients :
        call' = [call EXCEPT ![t] = [op |-> "unlink", of |-> mDeathRecipients[i], at |-> i]]
  BY DEF UnlinkToDeath
<1>3. /\ mutex' = {t} /\ mDeathRecipients' = mDeathRecipients /\ link' = link /\ Links' = Links
      /\ obituaries' = obituaries /\ reporting' = reporting
      /\ dead' = dead /\ obitsSent' = obitsSent
  BY DEF UnlinkToDeath, Links
<1>4. i \in Nat /\ mDeathRecipients[i] \in Links /\ Links \subseteq Nat
  BY <1>1, LenProperties, ElementOfSeq DEF TypeOK, Links
<1>5. /\ call' \in [Threads -> [op : {"idle", "link", "unlink", "erase"}, of : Nat, at : Nat]]
      /\ call'[t] = [op |-> "unlink", of |-> mDeathRecipients[i], at |-> i]
      /\ \A u \in Threads : u # t => call'[u] = Idle
  BY <1>1, <1>2, <1>4 DEF TypeOK
<1>6. TypeOK' /\ ListInv' /\ ToldInv' /\ RecordedInv'
  BY <1>1, <1>3, <1>5 DEF TypeOK, ListInv, ToldInv, RecordedInv
<1>7. MutexInv'
  BY <1>3, <1>5 DEF MutexInv, Idle
<1>8. ASSUME NEW u \in Threads
      PROVE  InHand(u)'
  BY <1>3, <1>5 DEF InHand, Idle
<1>9. BalanceInv'
  <2> SUFFICES ASSUME ~obitsSent, NEW m \in Links, In(m, mDeathRecipients)
               PROVE  link[m].linked /\ ~link[m].unlinked
    BY <1>3 DEF BalanceInv
  <2>1. m # 0
    BY <1>1, LenProperties DEF TypeOK, Links
  <2> QED  BY <2>1, <1>1 DEF BalanceInv, Idle
<1> QED  BY <1>6, <1>7, <1>8, <1>9 DEF IInv

LEMMA RemoteUnlinkStep ==
    ASSUME IInv, NEW t \in Threads, RemoteUnlink(t)
    PROVE  IInv'
<1> DEFINE n == call[t].of
<1>1. /\ TypeOK /\ MutexInv /\ ListInv /\ ToldInv /\ RecordedInv /\ BalanceInv
      /\ InHand(t)
  BY DEF IInv
<1>2. /\ call[t].op = "unlink"
      /\ call' = [call EXCEPT ![t].op = "erase"] /\ mutex' = mutex
      /\ mDeathRecipients' = mDeathRecipients /\ reporting' = reporting
      /\ dead' = dead /\ obitsSent' = obitsSent
  BY DEF RemoteUnlink
<1>3. mutex = {t} /\ \A u \in Threads : u # t => call[u] = Idle
  BY <1>1, <1>2, Alone DEF Idle
<1>4. /\ call' \in [Threads -> [op : {"idle", "link", "unlink", "erase"}, of : Nat, at : Nat]]
      /\ call'[t].op = "erase" /\ call'[t].of = n /\ call'[t].at = call[t].at
      /\ \A u \in Threads : u # t => call'[u] = Idle
      /\ \A u \in Threads : call'[u].of = call[u].of
  BY <1>1, <1>2, <1>3 DEF TypeOK
<1>5. /\ call[t].at \in DOMAIN mDeathRecipients /\ mDeathRecipients[call[t].at] = n
      /\ n \in Links
  <2>1. call[t].at \in DOMAIN mDeathRecipients /\ mDeathRecipients[call[t].at] = n
    BY <1>1, <1>2 DEF InHand
  <2> QED  BY <2>1, <1>1, LenProperties, ElementOfSeq DEF TypeOK
<1>6. MutexInv'
  BY <1>2, <1>3, <1>4 DEF MutexInv, Idle
<1>7. ASSUME ~In(n, obituaries')
      PROVE  \A u \in Threads : InHand(u)'
  BY <1>2, <1>4, <1>5, <1>7 DEF InHand, Idle
<1>8. CASE obitsSent \/ ~In(n, obituaries)
  <2>1. obituaries' = obituaries /\ link' = link /\ Links' = Links
    BY <1>8, ToSetIsIn DEF RemoteUnlink, Links
  <2>2. ~In(n, obituaries')
    BY <2>1, <1>1, <1>8 DEF ListInv, In
  <2>3. TypeOK' /\ ListInv' /\ ToldInv' /\ RecordedInv' /\ BalanceInv'
    BY <2>1, <1>1, <1>2, <1>4 DEF TypeOK, ListInv, ToldInv, RecordedInv, BalanceInv
  <2> QED  BY <1>6, <1>7, <2>2, <2>3 DEF IInv
<1>9. CASE ~obitsSent /\ In(n, obituaries)
  <2>1. /\ Unlisted(n) /\ link' = [link EXCEPT ![n].unlinked = TRUE]
    BY <1>9, ToSetIsIn DEF RemoteUnlink
  <2> DEFINE e == [link[n] EXCEPT !.unlinked = TRUE]
  <2>2. e \in BinderRecipient /\ e.told = link[n].told
    BY <1>1, <1>5, Fields DEF BinderRecipient
  <2>3. link' = [link EXCEPT ![n] = e]
    BY <2>1
  <2>4. PICK i \in DOMAIN obituaries :
            obituaries[i] = n /\ obituaries' = RemoveAt(obituaries, i)
    BY <2>1 DEF Unlisted
  <2> HIDE DEF e, n
  <2>5. /\ link' \in Seq(BinderRecipient) /\ Links' = Links
        /\ \A m \in Links : link'[m] = IF m = n THEN e ELSE link[m]
    BY <1>1, <1>5, <2>2, <2>3, Marked
  <2>6. /\ obituaries' \in Seq(Links) /\ Distinct(obituaries')
        /\ \A m : In(m, obituaries') <=> In(m, obituaries) /\ m # n
    BY <1>1, <2>4, Removed DEF TypeOK, ListInv
  <2>7. reporting = <<>> /\ ~In(n, reporting)
    BY <1>1, <1>9 DEF ListInv, In
  <2>8. TypeOK'
    BY <1>1, <1>2, <1>4, <2>5, <2>6 DEF TypeOK
  <2>9. ListInv' /\ RecordedInv'
    BY <1>1, <1>2, <1>9, <2>5, <2>6 DEF ListInv, RecordedInv
  <2>10. ToldInv'
    <3>1. ASSUME NEW m \in Links
          PROVE  /\ link'[m].told = 0
                 /\ m # n => link'[m].unlinked = link[m].unlinked
      <4>1. \A k \in Links : link[k].told = 0
        BY <1>1, <1>9 DEF ToldInv
      <4> QED  BY <4>1, <1>5, <2>2, <2>5
    <3>2. ASSUME NEW m \in Links, In(m, obituaries') \/ In(m, reporting')
          PROVE  ~link'[m].unlinked
      <4>1. m # n /\ In(m, obituaries)
        BY <3>2, <1>2, <2>6, <2>7 DEF In
      <4> QED  BY <4>1, <3>1, <1>1 DEF ToldInv
    <3> QED  BY <3>1, <3>2, <2>5 DEF ToldInv
  <2>11. BalanceInv'
    BY <1>1, <1>2, <1>4, <2>5 DEF BalanceInv, n
  <2> QED  BY <1>6, <1>7, <2>6, <2>8, <2>9, <2>10, <2>11 DEF IInv
<1> QED  BY <1>8, <1>9

LEMMA EraseStep ==
    ASSUME IInv, NEW t \in Threads, Erase(t)
    PROVE  IInv'
<1> DEFINE n == call[t].of
           at == call[t].at
<1>1. /\ TypeOK /\ MutexInv /\ ListInv /\ ToldInv /\ RecordedInv /\ BalanceInv
      /\ InHand(t)
  BY DEF IInv
<1>2. /\ call[t].op = "erase"
      /\ call' = [call EXCEPT ![t] = Idle] /\ mutex' = {}
      /\ mDeathRecipients' = RemoveAt(mDeathRecipients, at)
      /\ link' = [link EXCEPT ![n].erased = TRUE]
      /\ obituaries' = obituaries /\ reporting' = reporting
      /\ dead' = dead /\ obitsSent' = obitsSent
  BY DEF Erase, Return
<1>3. /\ at \in DOMAIN mDeathRecipients /\ mDeathRecipients[at] = n
      /\ n \in Links /\ ~In(n, obituaries)
  <2>1. /\ at \in DOMAIN mDeathRecipients /\ mDeathRecipients[at] = n
        /\ ~In(n, obituaries)
    BY <1>1, <1>2 DEF InHand
  <2> QED  BY <2>1, <1>1, LenProperties, ElementOfSeq DEF TypeOK
<1>4. \A u \in Threads : u # t => call[u] = Idle
  BY <1>1, <1>2, Alone DEF Idle
<1>5. /\ call' \in [Threads -> [op : {"idle", "link", "unlink", "erase"}, of : Nat, at : Nat]]
      /\ \A u \in Threads : call'[u] = Idle
  BY <1>1, <1>2, <1>4 DEF TypeOK, Idle
<1> DEFINE e == [link[n] EXCEPT !.erased = TRUE]
<1>6. /\ e \in BinderRecipient
      /\ e.linked = link[n].linked /\ e.unlinked = link[n].unlinked /\ e.told = link[n].told
  BY <1>1, <1>3, Fields DEF BinderRecipient
<1>7. link' = [link EXCEPT ![n] = e]
  BY <1>2
<1> HIDE DEF e, at
<1>8. /\ link' \in Seq(BinderRecipient) /\ Links' = Links
      /\ \A m \in Links : link'[m] = IF m = n THEN e ELSE link[m]
  BY <1>1, <1>3, <1>6, <1>7, Marked
<1>9. /\ mDeathRecipients' \in Seq(Links) /\ Distinct(mDeathRecipients')
      /\ \A m : In(m, mDeathRecipients') <=> In(m, mDeathRecipients) /\ m # n
  BY <1>1, <1>2, <1>3, Removed DEF TypeOK, ListInv
<1>10. TypeOK'
  BY <1>1, <1>2, <1>5, <1>8, <1>9 DEF TypeOK
<1>11. MutexInv' /\ \A u \in Threads : InHand(u)'
  BY <1>5 DEF MutexInv, InHand, Idle
<1>12. ListInv' /\ RecordedInv'
  BY <1>1, <1>2, <1>3, <1>8, <1>9 DEF ListInv, RecordedInv
<1>13. ToldInv'
  BY <1>1, <1>2, <1>6, <1>8 DEF ToldInv
<1>14. BalanceInv'
  <2> SUFFICES ASSUME ~obitsSent, NEW m \in Links, In(m, mDeathRecipients), m # n
               PROVE  link'[m].linked /\ ~link'[m].unlinked
    BY <1>2, <1>8, <1>9 DEF BalanceInv
  <2>1. m # 0
    BY <1>1, LenProperties DEF TypeOK, Links
  <2>2. \A u \in Threads : call[u].of # m
    BY <2>1, <1>4 DEF Idle
  <2> QED  BY <2>2, <1>1, <1>8 DEF BalanceInv
<1> QED  BY <1>10, <1>11, <1>12, <1>13, <1>14 DEF IInv

LEMMA DieStep == IInv /\ Die => IInv'
<1> SUFFICES ASSUME IInv, Die PROVE IInv'
  OBVIOUS
<1>1. /\ call' = call /\ mutex' = mutex /\ mDeathRecipients' = mDeathRecipients
      /\ link' = link /\ Links' = Links /\ obituaries' = obituaries
      /\ obitsSent' = obitsSent /\ reporting' = reporting /\ dead' \in BOOLEAN
  BY DEF Die, Links
<1> QED
  BY <1>1 DEF IInv, TypeOK, MutexInv, ListInv, ToldInv, RecordedInv, InHand, BalanceInv

LEMMA SendObituaryStep == IInv /\ SendObituary => IInv'
<1> SUFFICES ASSUME IInv, SendObituary PROVE IInv'
  OBVIOUS
<1>1. /\ call' = call /\ mutex' = mutex /\ mDeathRecipients' = mDeathRecipients
      /\ link' = link /\ Links' = Links /\ dead' = dead
      /\ obitsSent' = TRUE /\ reporting' = obituaries /\ obituaries' = <<>>
  BY DEF SendObituary, Links
<1>2. /\ <<>> \in Seq(Links) /\ Distinct(<<>>) /\ \A n : ~In(n, <<>>)
  BY EmptySeq DEF Distinct, In
<1>3. TypeOK' /\ MutexInv' /\ ListInv'
  BY <1>1, <1>2 DEF IInv, TypeOK, MutexInv, ListInv
<1>4. ToldInv' /\ RecordedInv' /\ BalanceInv'
  BY <1>1, <1>2 DEF IInv, ToldInv, RecordedInv, BalanceInv
<1>5. \A t \in Threads : InHand(t)'
  BY <1>1, <1>2 DEF IInv, InHand
<1> QED  BY <1>3, <1>4, <1>5 DEF IInv

LEMMA ReportOneDeathStep == IInv /\ ReportOneDeath => IInv'
<1> SUFFICES ASSUME IInv, ReportOneDeath PROVE IInv'
  OBVIOUS
<1> DEFINE n == Head(reporting)
<1>1. /\ TypeOK /\ MutexInv /\ ListInv /\ ToldInv /\ RecordedInv /\ BalanceInv
      /\ \A t \in Threads : InHand(t)
  BY DEF IInv
<1>2. /\ call' = call /\ mutex' = mutex /\ mDeathRecipients' = mDeathRecipients
      /\ obituaries' = obituaries /\ dead' = dead /\ obitsSent' = obitsSent
      /\ reporting # <<>> /\ reporting' = Tail(reporting)
      /\ link' = link \/ link' = [link EXCEPT ![n].told = @ + 1]
  BY DEF ReportOneDeath
<1>3. obitsSent /\ \A m : ~In(m, obituaries)
  BY <1>1, <1>2 DEF ListInv, In
<1>4. /\ reporting' \in Seq(Links) /\ n \in Links /\ In(n, reporting)
      /\ Distinct(reporting')
      /\ \A m : In(m, reporting') <=> In(m, reporting) /\ m # n
  BY <1>1, <1>2, HeadTaken DEF TypeOK, ListInv
<1>5. link[n].told = 0 /\ ~link[n].unlinked
  BY <1>1, <1>4 DEF ToldInv
<1> DEFINE e == [link[n] EXCEPT !.told = @ + 1]
<1>6. e \in BinderRecipient /\ e.told = 1 /\ e.unlinked = link[n].unlinked
  BY <1>1, <1>4, <1>5, Fields DEF BinderRecipient
<1>7. link' = link \/ link' = [link EXCEPT ![n] = e]
  BY <1>2
<1> HIDE DEF e, n
<1>8. /\ link' \in Seq(BinderRecipient) /\ Links' = Links
      /\ \A m \in Links : m # n => link'[m] = link[m]
      /\ link'[n].unlinked = link[n].unlinked /\ link'[n].told \in 0..1
  <2>1. CASE link' = link
    BY <2>1, <1>1, <1>5 DEF TypeOK, Links
  <2>2. CASE link' = [link EXCEPT ![n] = e]
    <3>1. /\ link' \in Seq(BinderRecipient) /\ Links' = Links
          /\ \A m \in Links : link'[m] = IF m = n THEN e ELSE link[m]
      BY <2>2, <1>1, <1>4, <1>6, Marked
    <3>2. link'[n] = e
      BY <3>1, <1>4
    <3> QED  BY <3>1, <3>2, <1>6
  <2> QED  BY <1>7, <2>1, <2>2
<1>9. TypeOK' /\ MutexInv' /\ ListInv' /\ RecordedInv'
  BY <1>1, <1>2, <1>3, <1>4, <1>8 DEF TypeOK, MutexInv, ListInv, RecordedInv
<1>10. ToldInv'
  BY <1>1, <1>2, <1>3, <1>4, <1>5, <1>8 DEF ToldInv
<1>11. BalanceInv'
  BY <1>2, <1>3 DEF BalanceInv
<1>12. ASSUME NEW t \in Threads
       PROVE  InHand(t)'
  BY <1>1, <1>2, <1>5, <1>8 DEF InHand
<1> QED  BY <1>9, <1>10, <1>11, <1>12 DEF IInv

-----------------------------------------------------------------------------
LEMMA StepInv == IInv /\ [Next]_vars => IInv'
<1> SUFFICES ASSUME IInv, [Next]_vars PROVE IInv'
  OBVIOUS
<1>1. ASSUME NEW t \in Threads, NEW r \in Recipients, LinkToDeath(t, r) \/ UnlinkToDeath(t, r)
      PROVE  IInv'
  BY <1>1, LinkToDeathStep, UnlinkToDeathStep
<1>2. ASSUME NEW t \in Threads, Serve(t)
      PROVE  IInv'
  BY <1>2, RemoteLinkStep, RemoteUnlinkStep, EraseStep DEF Serve
<1>3. CASE UNCHANGED vars
  <2>1. /\ call' = call /\ mutex' = mutex /\ mDeathRecipients' = mDeathRecipients
        /\ link' = link /\ Links' = Links /\ obituaries' = obituaries
        /\ obitsSent' = obitsSent /\ reporting' = reporting /\ dead' = dead
    BY <1>3 DEF vars, Links
  <2> QED
    BY <2>1 DEF IInv, TypeOK, MutexInv, ListInv, ToldInv, RecordedInv, InHand, BalanceInv
<1> QED  BY <1>1, <1>2, <1>3, DieStep, SendObituaryStep, ReportOneDeathStep DEF Next

THEOREM InvariantHolds == Spec => []IInv
BY InitInv, StepInv, PTL DEF Spec

(* The variables have their types; all lists are of binder recipients that *)
(* were made (linkToDeath and unlinkToDeath of the proxy).                 *)
THEOREM TypeCorrect == Spec => []TypeOK
<1>1. IInv => TypeOK
  BY DEF IInv
<1> QED  BY <1>1, InvariantHolds, PTL

(* Whoever is on the list of the binder object is in the vector of the     *)
(* proxy, hence exists and can be unlinked.                                *)
THEOREM LinkedIsRecordedHolds == Spec => []LinkedIsRecorded
<1>1. IInv => LinkedIsRecorded
  <2> SUFFICES ASSUME IInv, NEW n \in ToSet(obituaries) PROVE n \in ToSet(mDeathRecipients)
    BY DEF LinkedIsRecorded
  <2>1. In(n, obituaries) /\ n \in Links
    BY ToSetIsIn, Elements DEF IInv, TypeOK
  <2> QED  BY <2>1, ToSetIsIn DEF IInv, RecordedInv
<1> QED  BY <1>1, InvariantHolds, PTL

(* No recipient is told twice for a link, nor after unlinkToDeath answered *)
(* true, and until the death is known every entry of the vector is a link  *)
(* that can still be taken back, or in the hands of a thread.              *)
THEOREM LinksAreBalancedHolds == Spec => []LinksAreBalanced
<1>1. IInv => LinksAreBalanced
  <2> SUFFICES ASSUME IInv PROVE LinksAreBalanced
    OBVIOUS
  <2>1. \A n \in Links : link[n].told <= IF link[n].unlinked THEN 0 ELSE 1
    BY DEF IInv, ToldInv
  <2>2. ASSUME ~obitsSent, NEW n \in ToSet(mDeathRecipients)
        PROVE  \/ link[n].linked /\ ~link[n].unlinked
               \/ \E t \in Threads : call[t].of = n
    <3>1. In(n, mDeathRecipients) /\ n \in Links
      BY ToSetIsIn, Elements DEF IInv, TypeOK
    <3> QED  BY <3>1, <2>2 DEF IInv, BalanceInv
  <2> QED  BY <2>1, <2>2 DEF LinksAreBalanced
<1> QED  BY <1>1, InvariantHolds, PTL
=============================================================================
