--------------------------- MODULE AdoptionProofs ---------------------------
(***************************************************************************)
(* The adoption lock excludes, for every number of processes, any chain of *)
(* claims and any number of deaths; adoption, rollback and recovery under  *)
(* it are atomic, and leave every file in a state that recovery accepts,   *)
(* for every set of files and every plan.                                  *)
(*                                                                         *)
(* The claims made on the way to one dead owner form a chain: each names   *)
(* the dead claimants before it.  As long as the owner's record is in the  *)
(* lock file none of them is removed, so two processes that have claimed   *)
(* the right to remove it would name each other as dead.                   *)
(*                                                                         *)
(* A transaction changes a file once.  Its journal has the file's content  *)
(* before and after, so what it leaves is known from the files outside the *)
(* journal and the journal alone: a step that writes a journalled file     *)
(* does not change it, the receipt changes it by the whole plan, and the   *)
(* journal is closed on files that are as it says.                         *)
(***************************************************************************)
EXTENDS Adoption, SequenceTheorems, TLAPS

\* Records of processes; Nobody is none of them.
LockOwners == [p : Procs, inc : Nat]

Pcs == {"out", "claim", "inspect", "check", "reclaim", "sweep", "refuse", "link", "in"}
Claiming == {"claim", "inspect", "check", "reclaim"}
Keyed == Claiming \cup {"sweep", "refuse"}

LockTypeOK ==
  /\ inc \in [Procs -> Nat]
  /\ lock \in LockOwners \cup {Nobody}
  /\ claims \in SUBSET [key : Seq(LockOwners), by : LockOwners]
  /\ ctl \in [Procs -> [pc : Pcs, key : Seq(LockOwners)]]

\* Every owner and claimant that a key names is dead.
DeadInv ==
  /\ \A p \in Procs : ctl[p].pc \in Keyed =>
       /\ Len(ctl[p].key) >= 1
       /\ \A i \in 1..Len(ctl[p].key) : Stopped(ctl[p].key[i])
  /\ \A c \in claims : Len(c.key) >= 1 /\ Stopped(c.key[1])

\* Who cleans up cleans up after an owner that is gone from the lock file.
GoneInv ==
  \A p \in Procs : ctl[p].pc \in {"sweep", "refuse"} => ctl[p].key[1] # lock

\* The keys that lead to the owner in the lock file.
Current(k) == k[1] = lock
KeyOf(p) == ctl[p].key
Seeking(p) == ctl[p].pc \in Claiming /\ Current(KeyOf(p))
Keys == {KeyOf(p) : p \in {q \in Procs : Seeking(q)}}
        \cup {c.key : c \in {d \in claims : Current(d.key)}}

\* Any two of them agree as far as both go.
AgreeInv ==
  \A k, l \in Keys : \A i \in 1..Len(k) : i <= Len(l) => k[i] = l[i]

\* A slot has one claimant, and every longer key names it.
UniqueInv == \A c, d \in claims : c.key = d.key => c = d
ChainInv ==
  \A c \in claims, l \in Keys :
    Current(c.key) /\ Len(c.key) < Len(l) => l[Len(c.key) + 1] = c.by

\* Every claimant that a key names has its claim on disk.
SupportInv ==
  \A l \in Keys : \A i \in 1..(Len(l) - 1) :
    \E c \in claims : Current(c.key) /\ Len(c.key) = i

\* Who is about to remove the lock has the claim, and it is still the lock
\* it read.
OwnInv ==
  \A p \in Procs :
    /\ ctl[p].pc \in {"check", "reclaim"} /\ Current(KeyOf(p)) =>
         [key |-> KeyOf(p), by |-> Me(p)] \in claims
    /\ ctl[p].pc = "reclaim" => Current(KeyOf(p))

LockInv ==
  LockTypeOK /\ DeadInv /\ GoneInv /\ AgreeInv /\ UniqueInv /\ ChainInv /\ SupportInv
    /\ OwnInv /\ Exclusive

-----------------------------------------------------------------------------
\* A live process and an absent lock file are not dead owners.
LEMMA LiveNotStopped ==
  ASSUME LockTypeOK, NEW p \in Procs
  PROVE  Me(p) \in LockOwners /\ ~Stopped(Me(p)) /\ ~Stopped(Nobody) /\ Nobody \notin LockOwners
BY LockAssumption DEF LockTypeOK, LockOwners, Me, Stopped, Nobody

\* What says that a chain is in order survives when keys disappear.
LEMMA FewerKeys ==
  ASSUME AgreeInv, ChainInv, SupportInv, UNCHANGED <<lock, claims>>, Keys' \subseteq Keys
  PROVE  AgreeInv' /\ ChainInv' /\ SupportInv'
<1>1. AgreeInv'
  BY DEF AgreeInv
<1>2. ChainInv'
  BY DEF ChainInv, Current
<1>3. SupportInv'
  BY DEF SupportInv, Current
<1> QED BY <1>1, <1>2, <1>3

\* Two processes that may remove one lock are one process.
LEMMA OneReclaims ==
  ASSUME LockInv, NEW p \in Procs, NEW q \in Procs,
         ctl[p].pc \in {"check", "reclaim"}, ctl[q].pc \in {"check", "reclaim"},
         Current(KeyOf(p)), Current(KeyOf(q))
  PROVE  p = q
<1> DEFINE c == [key |-> KeyOf(p), by |-> Me(p)]
           d == [key |-> KeyOf(q), by |-> Me(q)]
<1>0. LockTypeOK /\ DeadInv /\ AgreeInv /\ UniqueInv /\ ChainInv /\ OwnInv
  BY DEF LockInv
<1>1. c \in claims /\ d \in claims
  BY <1>0 DEF OwnInv
<1>2. KeyOf(p) \in Keys /\ KeyOf(q) \in Keys
  BY DEF Keys, Seeking, Claiming
<1>3. KeyOf(p) \in Seq(LockOwners) /\ KeyOf(q) \in Seq(LockOwners)
  BY <1>0 DEF LockTypeOK, KeyOf
<1>4. ASSUME Len(KeyOf(p)) < Len(KeyOf(q)) PROVE FALSE
  <2>1. KeyOf(q)[Len(KeyOf(p)) + 1] = Me(p)
    BY <1>0, <1>1, <1>2, <1>4 DEF ChainInv
  <2>2. Stopped(KeyOf(q)[Len(KeyOf(p)) + 1])
    BY <1>0, <1>3, <1>4 DEF DeadInv, KeyOf, Keyed, Claiming
  <2> QED BY <1>0, <2>1, <2>2, LiveNotStopped
<1>5. ASSUME Len(KeyOf(q)) < Len(KeyOf(p)) PROVE FALSE
  <2>1. KeyOf(p)[Len(KeyOf(q)) + 1] = Me(q)
    BY <1>0, <1>1, <1>2, <1>5 DEF ChainInv
  <2>2. Stopped(KeyOf(p)[Len(KeyOf(q)) + 1])
    BY <1>0, <1>3, <1>5 DEF DeadInv, KeyOf, Keyed, Claiming
  <2> QED BY <1>0, <2>1, <2>2, LiveNotStopped
<1>6. Len(KeyOf(p)) = Len(KeyOf(q))
  BY <1>3, <1>4, <1>5, LenProperties
<1>7. KeyOf(p) = KeyOf(q)
  <2>1. \A i \in 1..Len(KeyOf(p)) : KeyOf(p)[i] = KeyOf(q)[i]
    BY <1>0, <1>2, <1>3, <1>6 DEF AgreeInv
  <2> QED BY <1>3, <1>6, <2>1, SeqEqual
<1>8. c = d
  BY <1>0, <1>1, <1>7 DEF UniqueInv
<1>9. Me(p) = Me(q)
  BY <1>8
<1> QED BY <1>9 DEF Me

\* k could be the key of one more process.
Fits(k) ==
  /\ \A l \in Keys : \A i \in 1..Len(k) : i <= Len(l) => k[i] = l[i]
  /\ \A c \in claims : Current(c.key) /\ Len(c.key) < Len(k) => k[Len(c.key) + 1] = c.by
  /\ \A i \in 1..(Len(k) - 1) : \E c \in claims : Current(c.key) /\ Len(c.key) = i

\* A key that is there fits.
LEMMA KeysFit ==
  ASSUME AgreeInv, ChainInv, SupportInv, NEW k \in Keys
  PROVE  Fits(k)
BY DEF AgreeInv, ChainInv, SupportInv, Fits

\* A process goes to a state x and touches no file.
LEMMA GoStep ==
  ASSUME LockInv, NEW p \in Procs, NEW x \in [pc : Pcs, key : Seq(LockOwners)],
         ctl' = [ctl EXCEPT ![p] = x], UNCHANGED <<lock, claims, inc>>,
         x.pc \in Keyed => Len(x.key) >= 1 /\ \A i \in 1..Len(x.key) : Stopped(x.key[i]),
         x.pc \in {"sweep", "refuse"} => x.key[1] # lock,
         x.pc \in Claiming /\ Current(x.key) => Fits(x.key),
         x.pc \in {"check", "reclaim"} /\ Current(x.key) =>
           [key |-> x.key, by |-> Me(p)] \in claims,
         x.pc = "reclaim" => Current(x.key),
         x.pc = "in" => lock = Me(p)
  PROVE  LockInv'
<1>0. LockTypeOK /\ DeadInv /\ GoneInv /\ AgreeInv /\ UniqueInv /\ ChainInv /\ SupportInv
      /\ OwnInv /\ Exclusive
  BY DEF LockInv
<1>1. ctl'[p] = x /\ \A q \in Procs : q # p => ctl'[q] = ctl[q]
  BY <1>0 DEF LockTypeOK
<1>2. LockTypeOK'
  BY <1>0, <1>1 DEF LockTypeOK
<1>3. DeadInv'
  BY <1>0, <1>1 DEF DeadInv, Stopped
<1>4. GoneInv'
  BY <1>0, <1>1 DEF GoneInv
<1>5. \A l \in Keys' : l \in Keys \/ (l = x.key /\ x.pc \in Claiming /\ Current(x.key))
  BY <1>1 DEF Keys, Seeking, KeyOf, Current
<1>6. AgreeInv'
  <2>1. \A l \in Keys' : \A i \in 1..Len(l) : \A k \in Keys : i <= Len(k) => l[i] = k[i]
    BY <1>0, <1>5 DEF AgreeInv, Fits
  <2>2. \A l \in Keys' : Len(l) \in Nat
    BY <1>2, LenProperties DEF LockTypeOK, Keys, KeyOf, Seeking
  <2>3. \A k \in Keys : Len(k) \in Nat
    BY <1>0, LenProperties DEF LockTypeOK, Keys, KeyOf, Seeking
  <2> SUFFICES ASSUME NEW k \in Keys', NEW l \in Keys', NEW i \in 1..Len(k), i <= Len(l)
               PROVE  k[i] = l[i]
    BY DEF AgreeInv
  <2>4. CASE l \in Keys
    BY <2>1, <2>4
  <2>5. CASE k \in Keys
    BY <2>1, <2>2, <2>3, <2>5
  <2>6. CASE k = x.key /\ l = x.key
    BY <2>6
  <2> QED BY <1>5, <2>4, <2>5, <2>6
<1>7. ChainInv'
  BY <1>0, <1>5 DEF ChainInv, Fits, Current
<1>8. SupportInv'
  BY <1>0, <1>5 DEF SupportInv, Fits, Current
<1>9. OwnInv'
  BY <1>0, <1>1 DEF OwnInv, KeyOf, Current, Me
<1>10. Exclusive'
  BY <1>0, <1>1 DEF Exclusive, Inside, At, Me
<1> QED BY <1>0, <1>2, <1>3, <1>4, <1>6, <1>7, <1>8, <1>9, <1>10 DEF LockInv, UniqueInv

\* The lock file goes, or comes to hold a live process, and no claim goes.
LEMMA LockMoves ==
  ASSUME LockInv, NEW p \in Procs, NEW x \in [pc : Pcs, key : Seq(LockOwners)],
         ctl' = [ctl EXCEPT ![p] = x], UNCHANGED <<claims, inc>>,
         lock' \in LockOwners \cup {Nobody}, ~Stopped(lock'),
         x.pc \notin Claiming,
         x.pc = "in" => lock' = Me(p),
         x.pc \in Keyed => Len(x.key) >= 1 /\ \A i \in 1..Len(x.key) : Stopped(x.key[i]),
         \A q \in Procs : q # p => ctl[q].pc \notin {"reclaim", "in"}
  PROVE  LockInv'
<1>0. LockTypeOK /\ DeadInv /\ GoneInv /\ UniqueInv /\ OwnInv
  BY DEF LockInv
<1>1. ctl'[p] = x /\ \A q \in Procs : q # p => ctl'[q] = ctl[q]
  BY <1>0 DEF LockTypeOK
<1>2. LockTypeOK'
  BY <1>0, <1>1 DEF LockTypeOK
<1>3. DeadInv'
  BY <1>0, <1>1 DEF DeadInv, Stopped
<1>4. ~Stopped(lock)'
  BY DEF Stopped
<1>5. Keys' = {}
  BY <1>2, <1>3, <1>4 DEF LockTypeOK, DeadInv, Keys, Seeking, Current, KeyOf, Keyed, Claiming
<1>6. (AgreeInv /\ ChainInv /\ SupportInv)'
  BY <1>5 DEF AgreeInv, ChainInv, SupportInv
<1>7. \A q \in Procs : ctl'[q].pc \in Keyed => ctl'[q].key[1] # lock'
  BY <1>2, <1>3, <1>4 DEF LockTypeOK, DeadInv
<1>8. GoneInv'
  BY <1>7 DEF GoneInv, Keyed
<1>9. OwnInv'
  <2>1. \A q \in Procs : ctl'[q].pc # "reclaim"
    BY <1>1 DEF Claiming
  <2> QED BY <1>7, <2>1 DEF OwnInv, KeyOf, Current, Keyed, Claiming
<1>10. Exclusive'
  BY <1>1 DEF Exclusive, Inside, At, Me
<1> QED BY <1>0, <1>2, <1>3, <1>6, <1>8, <1>9, <1>10 DEF LockInv, UniqueInv

-----------------------------------------------------------------------------
(* One lemma per step of withAdoptionLock.                                 *)

\* A key of one dead owner fits whatever is on disk.
LEMMA EnterStep ==
  ASSUME LockInv, NEW p \in Procs, NEW recovery \in BOOLEAN, Enter(p, recovery)
  PROVE  LockInv'
<1>0. LockTypeOK
  BY DEF LockInv
<1>1. CASE recovery /\ lock # Nobody
  <2> DEFINE x == [pc |-> "claim", key |-> <<lock>>]
  <2>1. lock \in LockOwners /\ <<lock>> \in Seq(LockOwners) /\ Len(<<lock>>) = 1
        /\ <<lock>>[1] = lock
    BY <1>0, <1>1 DEF LockTypeOK
  <2>2. Stopped(lock) /\ ctl' = [ctl EXCEPT ![p] = x] /\ UNCHANGED <<lock, claims, inc>>
    BY <1>1 DEF Enter
  <2>3. Fits(<<lock>>)
    <3>1. \A l \in Keys : l[1] = lock
      BY DEF Keys, Seeking, Current
    <3>2. \A c \in claims : ~(Len(c.key) < 1)
      BY DEF LockInv, DeadInv, LockTypeOK
    <3> QED BY <2>1, <3>1, <3>2 DEF Fits
  <2>4. x \in [pc : Pcs, key : Seq(LockOwners)] /\ x.pc = "claim" /\ x.key = <<lock>>
    BY <2>1 DEF Pcs
  <2>5. Len(x.key) >= 1 /\ (\A i \in 1..Len(x.key) : Stopped(x.key[i])) /\ Fits(x.key)
    BY <2>1, <2>2, <2>3, <2>4
  <2> HIDE DEF x
  <2> QED BY <2>2, <2>4, <2>5, GoStep
<1>2. CASE ~(recovery /\ lock # Nobody)
  <2> DEFINE x == [ctl[p] EXCEPT !.pc = "link"]
  <2>1. ctl' = [ctl EXCEPT ![p] = x] /\ UNCHANGED <<lock, claims, inc>>
    BY <1>0, <1>2 DEF Enter, Go, LockTypeOK
  <2>2. x \in [pc : Pcs, key : Seq(LockOwners)] /\ x.pc = "link"
    BY <1>0 DEF LockTypeOK, Pcs
  <2> HIDE DEF x
  <2> QED BY <2>1, <2>2, GoStep DEF Keyed, Claiming
<1> QED BY <1>1, <1>2

\* A claim is made where none is, so no key goes beyond it.
LEMMA ClaimStep ==
  ASSUME LockInv, NEW p \in Procs, Claim(p)
  PROVE  LockInv'
<1> DEFINE k == KeyOf(p)
           c == [key |-> k, by |-> Me(p)]
<1>0. LockTypeOK /\ DeadInv /\ GoneInv /\ AgreeInv /\ UniqueInv /\ ChainInv /\ SupportInv
      /\ OwnInv /\ Exclusive
  BY DEF LockInv
<1>1. ctl[p].pc = "claim" /\ k \in Seq(LockOwners) /\ Len(k) >= 1
      /\ \A i \in 1..Len(k) : Stopped(k[i])
  BY <1>0 DEF Claim, At, DeadInv, LockTypeOK, KeyOf, Keyed, Claiming
<1>2. CASE Holder(ctl[p].key) # {}
  <2> DEFINE x == [ctl[p] EXCEPT !.pc = "inspect"]
  <2>1. ctl' = [ctl EXCEPT ![p] = x] /\ UNCHANGED <<lock, claims, inc>>
    BY <1>0, <1>2 DEF Claim, Go, LockTypeOK
  <2>2. x \in [pc : Pcs, key : Seq(LockOwners)] /\ x.pc = "inspect" /\ x.key = k
    BY <1>0 DEF LockTypeOK, Pcs, KeyOf
  <2>3. Current(k) => Fits(k)
    <3> SUFFICES ASSUME Current(k) PROVE Fits(k)
      OBVIOUS
    <3>1. k \in Keys
      BY <1>1 DEF Keys, Seeking, Claiming
    <3> QED BY <1>0, <3>1, KeysFit
  <2> HIDE DEF x, k
  <2> QED BY <1>1, <2>1, <2>2, <2>3, GoStep
<1>3. CASE Holder(ctl[p].key) = {}
  <2>1. claims' = claims \cup {c} /\ UNCHANGED <<lock, inc>>
        /\ ctl' = [ctl EXCEPT ![p].pc = "check"]
    BY <1>3 DEF Claim, Go, KeyOf
  <2>2. /\ ctl'[p].pc = "check" /\ ctl'[p].key = k
        /\ \A q \in Procs : q # p => ctl'[q] = ctl[q]
    BY <1>0, <2>1 DEF LockTypeOK, KeyOf
  <2>3. c.key = k /\ c.by = Me(p) /\ c \in [key : Seq(LockOwners), by : LockOwners]
    BY <1>0, <1>1, LiveNotStopped
  <2>4. LockTypeOK'
    BY <1>0, <2>1, <2>3 DEF LockTypeOK, Pcs
  <2>5. DeadInv'
    BY <1>0, <1>1, <2>1, <2>2, <2>3 DEF DeadInv, Stopped, KeyOf, Keyed, Claiming
  <2>6. GoneInv'
    BY <1>0, <2>1, <2>2 DEF GoneInv
  <2>7. \A d \in claims : d.key # k
    BY <1>3 DEF Holder, KeyOf
  <2>8. UniqueInv'
    BY <1>0, <2>1, <2>3, <2>7 DEF UniqueInv
  <2>9. Current(k) => k \in Keys
    BY <1>1 DEF Keys, Seeking, Claiming
  <2>10. Keys' \subseteq Keys
    <3> SUFFICES ASSUME NEW l \in Keys' PROVE l \in Keys
      OBVIOUS
    <3>1. CASE \E q \in Procs : l = KeyOf(q)' /\ Seeking(q)'
      BY <2>1, <2>2, <2>9, <3>1 DEF Keys, Seeking, KeyOf, Current
    <3>2. CASE \E d \in claims' : l = d.key /\ Current(d.key)'
      BY <2>1, <2>3, <2>9, <3>2 DEF Keys, Current
    <3> QED BY <3>1, <3>2 DEF Keys
  <2>11. AgreeInv'
    BY <1>0, <2>10 DEF AgreeInv
  <2>12. ASSUME NEW l \in Keys, Current(k) PROVE ~(Len(k) < Len(l))
    <3> SUFFICES ASSUME Len(k) < Len(l) PROVE FALSE
      OBVIOUS
    <3>1. Len(k) \in Nat /\ l \in Seq(LockOwners)
      BY <1>0, <1>1, LenProperties DEF Keys, KeyOf, LockTypeOK
    <3>2. Len(k) \in 1..(Len(l) - 1)
      BY <1>1, <3>1
    <3>3. PICK d \in claims : Current(d.key) /\ Len(d.key) = Len(k)
      BY <1>0, <3>2 DEF SupportInv
    <3>4. d.key \in Keys /\ d.key \in Seq(LockOwners)
      BY <1>0, <3>3 DEF Keys, LockTypeOK
    <3>5. \A i \in 1..Len(k) : k[i] = d.key[i]
      BY <1>0, <2>9, <2>12, <3>1, <3>3, <3>4 DEF AgreeInv
    <3>6. k = d.key
      BY <1>1, <3>3, <3>4, <3>5, SeqEqual
    <3> QED BY <2>7, <3>3, <3>6
  <2>13. ChainInv'
    BY <1>0, <2>1, <2>3, <2>10, <2>12 DEF ChainInv, Current
  <2>14. SupportInv'
    BY <1>0, <2>1, <2>10 DEF SupportInv, Current
  <2>15. OwnInv'
    BY <1>0, <2>1, <2>2, <2>3 DEF OwnInv, KeyOf, Current, Me
  <2>16. Exclusive'
    BY <1>0, <2>1, <2>2 DEF Exclusive, Inside, At, Me
  <2> QED BY <2>4, <2>5, <2>6, <2>8, <2>11, <2>13, <2>14, <2>15, <2>16 DEF LockInv
<1> QED BY <1>2, <1>3

\* The dead claimant found is the one that every longer key names.
LEMMA InspectStep ==
  ASSUME LockInv, NEW p \in Procs, Inspect(p)
  PROVE  LockInv'
<1> DEFINE k == KeyOf(p)
           h == CHOOSE c \in Holder(k) : TRUE
           x == [pc |-> "claim", key |-> Append(k, h.by)]
<1>0. LockTypeOK /\ DeadInv /\ AgreeInv /\ UniqueInv /\ ChainInv /\ SupportInv
  BY DEF LockInv
<1>1. ctl[p].pc = "inspect" /\ k \in Seq(LockOwners) /\ Len(k) >= 1 /\ Len(k) \in Nat
      /\ \A i \in 1..Len(k) : Stopped(k[i])
  BY <1>0, LenProperties DEF Inspect, At, DeadInv, LockTypeOK, KeyOf, Keyed, Claiming
<1>2. UNCHANGED <<lock, claims, inc>>
  BY DEF Inspect
<1>3. CASE ctl' = [ctl EXCEPT ![p] = Outside]
  <2> DEFINE y == Outside
  <2>1. y \in [pc : Pcs, key : Seq(LockOwners)] /\ y.pc = "out"
    BY DEF Outside, Pcs
  <2>2. ctl' = [ctl EXCEPT ![p] = y]
    BY <1>3
  <2> HIDE DEF y
  <2> QED BY <1>2, <2>1, <2>2, GoStep DEF Keyed, Claiming
<1>4. CASE (\E c \in Holder(k) : Stopped(c.by)) /\ ctl' = [ctl EXCEPT ![p] = x]
  <2>1. h \in claims /\ h.key = k
    BY <1>4 DEF Holder
  <2>2. Stopped(h.by)
    BY <1>0, <1>4, <2>1 DEF Holder, UniqueInv
  <2>3. /\ x \in [pc : Pcs, key : Seq(LockOwners)] /\ x.pc = "claim"
        /\ Len(x.key) = Len(k) + 1 /\ x.key[Len(k) + 1] = h.by
        /\ \A i \in 1..Len(k) : x.key[i] = k[i]
    <3>1. h.by \in LockOwners
      BY <1>0, <2>1 DEF LockTypeOK
    <3> HIDE DEF h, k
    <3> QED BY <1>1, <3>1 DEF Pcs
  <2> HIDE DEF x, h
  <2>4. \A i \in 1..Len(x.key) : Stopped(x.key[i])
    BY <1>1, <2>2, <2>3
  <2>5. Current(x.key) => Fits(x.key)
    <3> SUFFICES ASSUME Current(x.key) PROVE Fits(x.key)
      OBVIOUS
    <3>1. Current(k)
      BY <1>1, <2>3 DEF Current
    <3>2. k \in Keys
      BY <1>1, <3>1 DEF Keys, Seeking, Claiming
    <3>3. Fits(k)
      BY <1>0, <3>2, KeysFit
    <3>4. \A l \in Keys : Len(l) \in Nat
      BY <1>0, LenProperties DEF LockTypeOK, Keys, KeyOf, Seeking
    <3>5. ASSUME NEW l \in Keys, NEW i \in 1..Len(x.key), i <= Len(l) PROVE x.key[i] = l[i]
      <4>1. CASE i \in 1..Len(k)
        BY <2>3, <3>3, <3>5, <4>1 DEF Fits
      <4>2. CASE i = Len(k) + 1
        <5>1. Len(h.key) < Len(l)
          BY <1>1, <2>1, <3>4, <3>5, <4>2
        <5> QED BY <1>0, <2>1, <2>3, <3>1, <4>2, <5>1 DEF ChainInv
      <4> QED BY <1>1, <2>3, <4>1, <4>2
    <3>6. ASSUME NEW c \in claims, Current(c.key), Len(c.key) < Len(x.key)
          PROVE  x.key[Len(c.key) + 1] = c.by
      <4>1. Len(c.key) \in Nat /\ Len(c.key) >= 1 /\ c.key \in Keys
            /\ c.key \in Seq(LockOwners)
        BY <1>0, <3>6, LenProperties DEF LockTypeOK, DeadInv, Keys
      <4>2. CASE Len(c.key) < Len(k)
        <5>1. k[Len(c.key) + 1] = c.by
          BY <3>3, <3>6, <4>2 DEF Fits
        <5>2. Len(c.key) + 1 \in 1..Len(k)
          BY <1>1, <4>1, <4>2
        <5> QED BY <2>3, <5>1, <5>2
      <4>3. CASE Len(c.key) = Len(k)
        <5>1. \A i \in 1..Len(k) : k[i] = c.key[i]
          BY <1>1, <3>3, <4>1, <4>3 DEF Fits
        <5>2. c.key = k
          BY <1>1, <4>1, <4>3, <5>1, SeqEqual
        <5>3. c = h
          BY <1>0, <2>1, <5>2 DEF UniqueInv
        <5> QED BY <2>3, <4>3, <5>3
      <4> QED BY <1>1, <2>3, <3>6, <4>1, <4>2, <4>3
    <3>7. ASSUME NEW i \in 1..(Len(x.key) - 1)
          PROVE  \E c \in claims : Current(c.key) /\ Len(c.key) = i
      <4>1. CASE i = Len(k)
        BY <2>1, <3>1, <4>1
      <4>2. CASE i \in 1..(Len(k) - 1)
        BY <3>3, <4>2 DEF Fits
      <4> QED BY <1>1, <2>3, <4>1, <4>2
    <3> QED BY <3>5, <3>6, <3>7 DEF Fits
  <2>6. Len(x.key) >= 1
    BY <1>1, <2>3
  <2> HIDE DEF k
  <2> QED BY <1>2, <1>4, <2>3, <2>4, <2>5, <2>6, GoStep
<1> HIDE DEF k
<1>5. k = ctl[p].key
  BY DEF k, KeyOf
<1> QED BY <1>0, <1>3, <1>4, <1>5 DEF Inspect, LockTypeOK

\* Under its claim a process reclaims only the lock it read.
LEMMA CheckStep ==
  ASSUME LockInv, NEW p \in Procs, Check(p)
  PROVE  LockInv'
<1> DEFINE k == KeyOf(p)
           x == [ctl[p] EXCEPT !.pc = IF lock = Head(k) THEN "reclaim" ELSE "refuse"]
<1>0. LockTypeOK /\ DeadInv /\ AgreeInv /\ ChainInv /\ SupportInv /\ OwnInv
  BY DEF LockInv
<1>1. ctl[p].pc = "check" /\ k \in Seq(LockOwners) /\ Len(k) >= 1
      /\ \A i \in 1..Len(k) : Stopped(k[i])
  BY <1>0 DEF Check, At, DeadInv, LockTypeOK, KeyOf, Keyed, Claiming
<1>5. Head(k) = k[1]
  <2> HIDE DEF k
  <2> QED BY <1>1
<1>2. UNCHANGED <<lock, claims, inc>> /\ ctl' = [ctl EXCEPT ![p] = x]
  BY <1>0 DEF Check, Go, LockTypeOK, KeyOf
<1>3. /\ x \in [pc : Pcs, key : Seq(LockOwners)] /\ x.key = k
      /\ IF k[1] = lock THEN x.pc = "reclaim" ELSE x.pc = "refuse"
  BY <1>0, <1>1, <1>5 DEF LockTypeOK, Pcs, KeyOf
<1>4. Current(k) => Fits(k) /\ [key |-> k, by |-> Me(p)] \in claims
  <2> SUFFICES ASSUME Current(k) PROVE Fits(k) /\ [key |-> k, by |-> Me(p)] \in claims
    OBVIOUS
  <2>1. k \in Keys
    BY <1>1 DEF Keys, Seeking, Claiming
  <2> QED BY <1>0, <1>1, <2>1, KeysFit DEF OwnInv
<1> HIDE DEF x, k
<1> QED BY <1>1, <1>2, <1>3, <1>4, GoStep DEF Current

\* The one process that may remove the lock does, and nobody is inside.
LEMMA ReclaimStep ==
  ASSUME LockInv, NEW p \in Procs, Reclaim(p)
  PROVE  LockInv'
<1> DEFINE x == [ctl[p] EXCEPT !.pc = "sweep"]
<1>0. LockTypeOK /\ DeadInv /\ OwnInv /\ Exclusive
  BY DEF LockInv
<1>1. ctl[p].pc = "reclaim" /\ Current(KeyOf(p))
  BY <1>0 DEF Reclaim, At, OwnInv
<1>2. UNCHANGED <<claims, inc>> /\ lock' = Nobody /\ ctl' = [ctl EXCEPT ![p] = x]
  BY <1>0 DEF Reclaim, Go, LockTypeOK
<1>3. x \in [pc : Pcs, key : Seq(LockOwners)] /\ x.key = ctl[p].key /\ x.pc = "sweep"
  BY <1>0 DEF LockTypeOK, Pcs
<1>4. Len(ctl[p].key) >= 1 /\ \A i \in 1..Len(ctl[p].key) : Stopped(ctl[p].key[i])
  BY <1>0, <1>1 DEF DeadInv, Keyed, Claiming
<1>5. Stopped(lock)
  BY <1>0, <1>1, <1>4 DEF Current, KeyOf, LockTypeOK
<1>6. \A q \in Procs : q # p => ctl[q].pc \notin {"reclaim", "in"}
  <2>1. \A q \in Procs : ctl[q].pc = "reclaim" => q = p
    BY <1>0, <1>1, OneReclaims DEF OwnInv
  <2>2. \A q \in Procs : ctl[q].pc # "in"
    BY <1>0, <1>5, LiveNotStopped DEF Exclusive, Inside, At
  <2> QED BY <2>1, <2>2
<1> HIDE DEF x
<1> QED BY <1>0, <1>2, <1>3, <1>4, <1>6, LockMoves, LiveNotStopped DEF Claiming

\* Only claims on an owner that is gone are removed.
LEMMA SweepStep ==
  ASSUME LockInv, NEW p \in Procs, Sweep(p)
  PROVE  LockInv'
<1> DEFINE k == ctl[p].key
<1>0. LockTypeOK /\ DeadInv /\ GoneInv /\ AgreeInv /\ UniqueInv /\ ChainInv /\ SupportInv
      /\ OwnInv /\ Exclusive
  BY DEF LockInv
<1>1. /\ ctl[p].pc \in {"sweep", "refuse"} /\ k \in Seq(LockOwners) /\ Len(k) >= 1
      /\ Len(k) \in Nat /\ k[1] # lock /\ \A i \in 1..Len(k) : Stopped(k[i])
  BY <1>0, LenProperties DEF Sweep, DeadInv, GoneInv, LockTypeOK, Keyed, Claiming
<1>2. UNCHANGED <<lock, inc>> /\ claims' = claims \ Holder(k)
  BY DEF Sweep
<1>3. \A c \in claims : Current(c.key) => c \in claims'
  BY <1>1, <1>2 DEF Holder, Current
<1>4. /\ Front(k) \in Seq(LockOwners) /\ Len(Front(k)) = Len(k) - 1
      /\ \A i \in 1..(Len(k) - 1) : Front(k)[i] = k[i]
  BY <1>1 DEF Front
<1>5. /\ ctl'[p].pc \in {"out", "link", "sweep"} /\ ctl'[p].key \in Seq(LockOwners)
      /\ ctl'[p].pc = "sweep" => Len(k) > 1 /\ ctl'[p].key = Front(k)
      /\ \A q \in Procs : q # p => ctl'[q] = ctl[q]
      /\ ctl' \in [Procs -> [pc : Pcs, key : Seq(LockOwners)]]
  <2> DEFINE y == IF ctl[p].pc = "refuse" THEN Outside
                  ELSE [pc |-> IF Len(k) = 1 THEN "link" ELSE "sweep", key |-> Front(k)]
  <2>1. ctl' = [ctl EXCEPT ![p] = y]
    BY <1>0 DEF Sweep, LockTypeOK
  <2>2. /\ y.pc \in {"out", "link", "sweep"} /\ y \in [pc : Pcs, key : Seq(LockOwners)]
        /\ y.pc = "sweep" => Len(k) # 1 /\ y.key = Front(k)
    BY <1>1, <1>4 DEF Outside, Pcs
  <2> HIDE DEF y
  <2>3. /\ ctl'[p] = y /\ \A q \in Procs : q # p => ctl'[q] = ctl[q]
        /\ ctl' \in [Procs -> [pc : Pcs, key : Seq(LockOwners)]]
    BY <1>0, <2>1, <2>2 DEF LockTypeOK
  <2>4. y.pc = "sweep" => Len(k) > 1
    <3>1. Len(k) \in Nat /\ Len(k) >= 1
      BY <1>1
    <3>2. \A n \in Nat : n >= 1 /\ n # 1 => n > 1
      OBVIOUS
    <3>3. y.pc = "sweep" => Len(k) # 1
      BY <2>2
    <3> QED BY <3>1, <3>2, <3>3, Zenon
  <2>5. y.key \in Seq(LockOwners)
    BY <2>2
  <2> HIDE DEF k
  <2> QED BY <2>2, <2>3, <2>4, <2>5
<1>6. LockTypeOK'
  BY <1>0, <1>2, <1>5 DEF LockTypeOK
<1>7. DeadInv'
  <2>1. ctl'[p].pc = "sweep" =>
          Len(ctl'[p].key) >= 1 /\ \A i \in 1..Len(ctl'[p].key) : Stopped(ctl'[p].key[i])
    BY <1>1, <1>4, <1>5
  <2> QED BY <1>0, <1>2, <1>5, <2>1 DEF DeadInv, Stopped, Keyed, Claiming
<1>8. GoneInv'
  BY <1>0, <1>1, <1>2, <1>4, <1>5 DEF GoneInv
<1>9. UniqueInv'
  BY <1>0, <1>2 DEF UniqueInv
<1>10. Keys' \subseteq Keys
  <2> SUFFICES ASSUME NEW l \in Keys' PROVE l \in Keys
    OBVIOUS
  <2>1. CASE \E q \in Procs : l = KeyOf(q)' /\ Seeking(q)'
    BY <1>2, <1>5, <2>1 DEF Keys, Seeking, KeyOf, Current, Claiming
  <2>2. CASE \E d \in claims' : l = d.key /\ Current(d.key)'
    BY <1>2, <2>2 DEF Keys, Current
  <2> QED BY <2>1, <2>2 DEF Keys
<1>11. AgreeInv'
  BY <1>0, <1>10 DEF AgreeInv
<1>12. ChainInv'
  BY <1>0, <1>2, <1>10 DEF ChainInv, Current
<1>13. SupportInv'
  BY <1>0, <1>2, <1>3, <1>10 DEF SupportInv, Current
<1>14. OwnInv'
  <2>1. \A q \in Procs : [key |-> KeyOf(q), by |-> Me(q)] \in claims /\ Current(KeyOf(q)) =>
          [key |-> KeyOf(q), by |-> Me(q)] \in claims'
    BY <1>3
  <2> QED BY <1>0, <1>2, <1>5, <2>1 DEF OwnInv, KeyOf, Current, Me
<1>15. Exclusive'
  BY <1>0, <1>2, <1>5 DEF Exclusive, Inside, At, Me
<1> QED BY <1>6, <1>7, <1>8, <1>9, <1>11, <1>12, <1>13, <1>14, <1>15 DEF LockInv

\* The lock is free when it is taken, so nobody is inside.
LEMMA LinkLockStep ==
  ASSUME LockInv, NEW p \in Procs, LinkLock(p)
  PROVE  LockInv'
<1>0. LockTypeOK /\ DeadInv /\ OwnInv /\ Exclusive
  BY DEF LockInv
<1>1. CASE lock = Nobody
  <2> DEFINE x == [ctl[p] EXCEPT !.pc = "in"]
  <2>1. lock' = Me(p) /\ UNCHANGED <<claims, inc>> /\ ctl' = [ctl EXCEPT ![p] = x]
    BY <1>0, <1>1 DEF LinkLock, Go, LockTypeOK
  <2>2. x \in [pc : Pcs, key : Seq(LockOwners)] /\ x.pc = "in"
    BY <1>0 DEF LockTypeOK, Pcs
  <2>3. \A q \in Procs : ctl[q].pc # "in"
    BY <1>0, <1>1, LiveNotStopped DEF Exclusive, Inside, At
  <2>4. \A q \in Procs : ctl[q].pc # "reclaim"
    <3> SUFFICES ASSUME NEW q \in Procs, ctl[q].pc = "reclaim" PROVE FALSE
      OBVIOUS
    <3>1. ctl[q].key[1] = Nobody
      BY <1>0, <1>1 DEF OwnInv, Current, KeyOf
    <3>2. Stopped(ctl[q].key[1])
      BY <1>0 DEF DeadInv, Keyed, Claiming, LockTypeOK
    <3> QED BY <1>0, <3>1, <3>2, LiveNotStopped
  <2> HIDE DEF x
  <2> QED BY <1>0, <2>1, <2>2, <2>3, <2>4, LockMoves, LiveNotStopped DEF Keyed, Claiming
<1>2. CASE lock # Nobody
  <2> DEFINE x == [ctl[p] EXCEPT !.pc = "out"]
  <2>1. UNCHANGED <<lock, claims, inc>> /\ ctl' = [ctl EXCEPT ![p] = x]
    BY <1>0, <1>2 DEF LinkLock, Go, LockTypeOK
  <2>2. x \in [pc : Pcs, key : Seq(LockOwners)] /\ x.pc = "out"
    BY <1>0 DEF LockTypeOK, Pcs
  <2> HIDE DEF x
  <2> QED BY <2>1, <2>2, GoStep DEF Keyed, Claiming
<1> QED BY <1>1, <1>2

\* A process that leaves removes its own lock.
LEMMA LeaveStep ==
  ASSUME LockInv, NEW p \in Procs, Leave(p)
  PROVE  LockInv'
<1> DEFINE x == Outside
<1>0. LockTypeOK /\ DeadInv /\ OwnInv /\ Exclusive
  BY DEF LockInv
<1>1. lock' = Nobody /\ UNCHANGED <<claims, inc>> /\ ctl' = [ctl EXCEPT ![p] = x]
  BY DEF Leave
<1>2. x \in [pc : Pcs, key : Seq(LockOwners)] /\ x.pc = "out"
  BY DEF Outside, Pcs
<1>3. lock = Me(p)
  BY <1>0 DEF Leave, Exclusive
<1>4. \A q \in Procs : ctl[q].pc = "in" => q = p
  BY <1>0, <1>3 DEF Exclusive, Inside, At, Me
<1>5. \A q \in Procs : ctl[q].pc # "reclaim"
  <2> SUFFICES ASSUME NEW q \in Procs, ctl[q].pc = "reclaim" PROVE FALSE
    OBVIOUS
  <2>1. ctl[q].key[1] = Me(p)
    BY <1>0, <1>3 DEF OwnInv, Current, KeyOf
  <2>2. Stopped(ctl[q].key[1])
    BY <1>0 DEF DeadInv, Keyed, Claiming, LockTypeOK
  <2> QED BY <1>0, <2>1, <2>2, LiveNotStopped
<1> HIDE DEF x
<1> QED BY <1>0, <1>1, <1>2, <1>4, <1>5, LockMoves, LiveNotStopped DEF Keyed, Claiming

\* A death makes its process's records dead and no other live.
LEMMA DieStep ==
  ASSUME LockInv, NEW p \in Procs, Die(p)
  PROVE  LockInv'
<1>0. LockTypeOK /\ DeadInv /\ GoneInv /\ AgreeInv /\ UniqueInv /\ ChainInv /\ SupportInv
      /\ OwnInv /\ Exclusive
  BY DEF LockInv
<1>1. /\ UNCHANGED <<lock, claims>> /\ inc' = [inc EXCEPT ![p] = @ + 1]
      /\ ctl' = [ctl EXCEPT ![p] = Outside]
  BY DEF Die
<1>2. /\ ctl'[p] = Outside /\ Outside.pc = "out"
      /\ \A q \in Procs : q # p => ctl'[q] = ctl[q] /\ Me(q)' = Me(q)
  BY <1>0, <1>1 DEF LockTypeOK, Outside, Me
<1>3. LockTypeOK'
  <2>1. Outside \in [pc : Pcs, key : Seq(LockOwners)]
    BY DEF Outside, Pcs
  <2> HIDE DEF Outside
  <2> QED BY <1>0, <1>1, <2>1 DEF LockTypeOK
<1>4. \A o \in LockOwners : Stopped(o) => Stopped(o)'
  BY <1>0, <1>1 DEF Stopped, LockTypeOK, LockOwners
<1>5. DeadInv'
  <2>1. ASSUME NEW q \in Procs, ctl'[q].pc \in Keyed
        PROVE  /\ Len(ctl[q].key)' >= 1
               /\ \A i \in 1..Len(ctl[q].key)' : Stopped(ctl[q].key[i])'
    <3>1. ctl'[q] = ctl[q] /\ ctl[q].key \in Seq(LockOwners)
      BY <1>0, <1>2, <2>1 DEF Keyed, Claiming, LockTypeOK
    <3> QED BY <1>0, <1>4, <2>1, <3>1 DEF DeadInv
  <2>2. ASSUME NEW c \in claims PROVE Len(c.key) >= 1 /\ Stopped(c.key[1])'
    <3>1. c.key \in Seq(LockOwners) /\ Len(c.key) >= 1 /\ Stopped(c.key[1])
      BY <1>0 DEF DeadInv, LockTypeOK
    <3> QED BY <1>4, <3>1
  <2> QED BY <1>1, <2>1, <2>2 DEF DeadInv
<1>6. GoneInv'
  BY <1>0, <1>1, <1>2 DEF GoneInv
<1>7. Keys' \subseteq Keys
  <2> SUFFICES ASSUME NEW l \in Keys' PROVE l \in Keys
    OBVIOUS
  <2>1. CASE \E q \in Procs : l = KeyOf(q)' /\ Seeking(q)'
    BY <1>1, <1>2, <2>1 DEF Keys, Seeking, KeyOf, Current, Claiming
  <2>2. CASE \E d \in claims' : l = d.key /\ Current(d.key)'
    BY <1>1, <2>2 DEF Keys, Current
  <2> QED BY <2>1, <2>2 DEF Keys
<1>8. AgreeInv' /\ ChainInv' /\ SupportInv'
  BY <1>0, <1>1, <1>7, FewerKeys
<1>9. UniqueInv'
  BY <1>0, <1>1 DEF UniqueInv
<1>10. OwnInv'
  BY <1>0, <1>1, <1>2 DEF OwnInv, KeyOf, Current
<1>11. Exclusive'
  BY <1>0, <1>1, <1>2 DEF Exclusive, Inside, At
<1> QED BY <1>3, <1>5, <1>6, <1>8, <1>9, <1>10, <1>11 DEF LockInv

\* The invariant holds where no process has started.
LEMMA LockStarts == LockInit => LockInv
<1> SUFFICES ASSUME LockInit PROVE LockInv
  OBVIOUS
<1>1. LockTypeOK
  BY DEF LockInit, LockTypeOK, Pcs, Outside
<1>2. \A p \in Procs : ctl[p].pc = "out"
  BY DEF LockInit, Outside
<1>3. claims = {} /\ Keys = {}
  BY <1>2 DEF LockInit, Keys, Seeking, Claiming
<1> QED BY <1>1, <1>2, <1>3 DEF LockInv, DeadInv, GoneInv, AgreeInv, UniqueInv, ChainInv,
      SupportInv, OwnInv, Exclusive, Inside, At, Keyed, Claiming

\* Every step of every process keeps it.
LEMMA LockKept ==
  ASSUME LockInv, [LockNext]_lockVars
  PROVE  LockInv'
<1>1. CASE LockNext
  <2> SUFFICES ASSUME NEW p \in Procs,
                      \/ \E recovery \in BOOLEAN : Enter(p, recovery)
                      \/ LockStep(p) \/ Leave(p) \/ Die(p)
               PROVE  LockInv'
    BY <1>1 DEF LockNext
  <2> QED BY EnterStep, ClaimStep, InspectStep, CheckStep, ReclaimStep, SweepStep, LinkLockStep,
        LeaveStep, DieStep DEF LockStep
<1>2. CASE UNCHANGED lockVars
  BY <1>2 DEF lockVars, LockInv, LockTypeOK, DeadInv, GoneInv, AgreeInv, UniqueInv, ChainInv,
    SupportInv, OwnInv, Exclusive, Inside, At, Me, Stopped, Keys, KeyOf, Seeking, Current
<1> QED BY <1>1, <1>2

\* Whatever runs under the lock, no two processes are in it: the owner in the
\* lock file is the process that withAdoptionLock let in.
THEOREM LockExcludes == LockSpec => []Exclusive
<1>1. LockInv => Exclusive
  BY DEF LockInv
<1> QED BY LockStarts, LockKept, <1>1, PTL DEF LockSpec

-----------------------------------------------------------------------------
\* A step of an adoption, a rollback or a recovery is a step of the lock or
\* leaves it alone.
LEMMA WorkLocks ==
  ASSUME NEW p \in Procs, Work(p)
  PROVE  [LockNext]_lockVars
<1> USE DEF LockNext
<1>1. CASE BeginAdopt(p) \/ BeginRecover(p) \/ \E i \in DOMAIN receipts : BeginRollback(p, i)
  <2>1. \E recovery \in BOOLEAN : Enter(p, recovery)
    BY <1>1 DEF BeginAdopt, BeginRecover, BeginRollback
  <2> QED BY <2>1
<1>2. CASE Locking(p)
  BY <1>2 DEF Locking
<1>3. CASE Apply(p)
  <2>1. Leave(p) \/ UNCHANGED lockVars
    BY <1>3 DEF Apply, StartAdopt, Prepare, Stage, SetAside, Replace, WriteReceipt, RemoveArtifact,
      Finish, ApplyFails, UndoRemove, UndoPutBack, UndoFinish, Abandon, CloseJournal, Exit, Stay
  <2> QED BY <2>1
<1>4. CASE Recover(p)
  <2>1. Leave(p) \/ UNCHANGED lockVars
    BY <1>4 DEF Recover, StartRecover, RestoreAside, RestorePlace, Restored, RestoreFails,
      Unrestore, Exit, Stay
  <2> QED BY <2>1
<1>5. CASE Rollback(p)
  <2>1. Leave(p) \/ UNCHANGED lockVars
    BY <1>5 DEF Rollback, StartRollback, RollBackFile, RolledBack, RollbackFails, Reinstall,
      Reinstalled, CloseJournal, Exit, Stay
  <2> QED BY <2>1
<1>6. CASE Crash(p) \/ CrashInHeader(p)
  BY <1>6 DEF Crash, CrashInHeader
<1> QED BY <1>1, <1>2, <1>3, <1>4, <1>5, <1>6 DEF Work

\* Any step is one of the lock or leaves it alone.
LEMMA NextLocks ==
  ASSUME [Next]_vars
  PROVE  [LockNext]_lockVars
<1>1. CASE \E p \in Procs : Work(p)
  BY <1>1, WorkLocks
<1>2. CASE Around
  BY <1>2 DEF Around, AuthorEdits, Upgrade
<1>3. CASE UNCHANGED vars
  BY <1>3 DEF vars
<1> QED BY <1>1, <1>2, <1>3 DEF Next

\* Transactions on the project exclude each other, whatever fails or dies:
\* adopt, rollback and recover run the lock's specification.
THEOREM AdoptionsExclude == Spec => []Exclusive
<1>1. Init => LockInit
  BY DEF Init
<1>2. [Next]_vars => [LockNext]_lockVars
  BY NextLocks
<1>3. Spec => LockSpec
  BY <1>1, <1>2, PTL DEF Spec, LockSpec
<1> QED BY <1>3, LockExcludes, PTL

-----------------------------------------------------------------------------
(* What a transaction keeps: the invariant.                                *)

\* A sequence, of whatever values.
IsSeq(s) == s \in Seq({s[i] : i \in DOMAIN s})

\* A set of files.
IsFiles(d) == d = [f \in Files |-> d[f]]

IsJob(j) ==
  j = [op |-> j.op, step |-> j.step, plan |-> j.plan, id |-> j.id, todo |-> j.todo,
       done |-> j.done]
IsJournal(j) == j = [op |-> j.op, muts |-> j.muts, id |-> j.id]

ShapeInv ==
  /\ IsFiles(disk)
  /\ IsFiles(tmp) /\ IsFiles(bak)
  /\ IsJournal(journal) /\ IsSeq(journal.muts)
  /\ durable \in BOOLEAN
  /\ IsSeq(receipts)
  /\ job = [p \in Procs |-> job[p]]
  /\ \A p \in Procs : IsJob(job[p]) /\ IsSeq(job[p].done)

PathsOf(ms) == {ms[i].path : i \in DOMAIN ms}

\* A transaction changes a file of the project once.
Distinct(ms) ==
  /\ PathsOf(ms) \subseteq Files
  /\ \A i, k \in DOMAIN ms : ms[i].path = ms[k].path => i = k

\* A mutation does what the plan says of its file.
Follows(plan, m) ==
  IF m.path = LockFile THEN m.before = plan.prior /\ m.after = NewLock(plan)
  ELSE /\ m.before = plan.actions[m.path].before
       /\ m.after = plan.actions[m.path].after

\* The files a plan writes, the lock file among them.
Written(plan) == Changes(plan) \cup {LockFile}

\* The mutations of a receipt are its plan.
ReceiptsInv ==
  \A r \in DOMAIN receipts :
    LET ms == receipts[r].muts IN
    /\ IsSeq(ms) /\ Distinct(ms)
    /\ PathsOf(ms) = Written(receipts[r].plan)
    /\ \A i \in DOMAIN ms : Follows(receipts[r].plan, ms[i])

JournalInv ==
  /\ Distinct(journal.muts)
  /\ journal.op \notin {"adopt", "rollback"} => journal.muts = <<>>
  /\ durable => journal.op = "adopt"
  /\ journal.op = "rollback" =>
       journal.id \in DOMAIN receipts /\ journal.muts = receipts[journal.id].muts

\* A file in a state that recovery, or the rollback, takes.
Fine(m) ==
  CASE journal.op = "adopt" /\ durable  -> disk[m.path] = m.after
    [] journal.op = "adopt" /\ ~durable -> Intact(m)
    [] OTHER -> disk[m.path] \in {m.before, m.after}

\* Only an author's edit leaves it in another, at any step of an operation.
AcceptedInv ==
  \A i \in DOMAIN journal.muts : journal.muts[i].path \in touched \/ Fine(journal.muts[i])

-----------------------------------------------------------------------------
(* What each step of an operation knows.                                   *)

Applying == {"prepare", "stage", "aside", "replace"}
Undoing == {"undo", "putback"}
Restoring == {"restore", "place", "unrestore"}

\* The mutation the operation is at.
Now == journal.muts[Len(journal.muts)]

\* The files of a running adoption: those before the last mutation are
\* installed with their old content set aside, the last is on its way.
ApplyInv(p) ==
  job[p].op = "adopt" /\ job[p].step \in Applying =>
    LET ms == journal.muts IN
    /\ journal.op = "adopt" /\ ~durable /\ job[p].done = ms
    /\ job[p].todo \cap PathsOf(ms) = {}
    /\ job[p].todo \cup PathsOf(ms) = Written(job[p].plan)
    /\ \A i \in DOMAIN ms : Follows(job[p].plan, ms[i])
    /\ job[p].plan = Plan(Settled, job[p].plan.opts)
    /\ \A i \in DOMAIN ms : (i = Len(ms) => job[p].step = "prepare") =>
         disk[ms[i].path] = ms[i].after /\ bak[ms[i].path] = ms[i].before
    /\ job[p].step # "prepare" => Len(ms) \in DOMAIN ms
    /\ job[p].step \in {"stage", "aside"} => disk[Now.path] = Now.before
    /\ job[p].step \in {"aside", "replace"} => tmp[Now.path] = Now.after
    /\ job[p].step = "replace" => disk[Now.path] = Absent /\ bak[Now.path] = Now.before

\* While a failed adoption is undone, done is what is left to undo.
UndoInv(p) ==
  job[p].op = "adopt" /\ job[p].step \in Undoing =>
    LET ms == journal.muts
        n  == Len(job[p].done)
    IN  /\ journal.op = "adopt" /\ ~durable
        /\ DOMAIN job[p].done \subseteq DOMAIN ms
        /\ \A i \in DOMAIN job[p].done :
             job[p].done[i] = ms[i] /\ bak[ms[i].path] = ms[i].before
        /\ \A i \in DOMAIN ms : i \notin DOMAIN job[p].done => disk[ms[i].path] = ms[i].before
        /\ job[p].step = "putback" => job[p].done # <<>>

\* What is cleaned up after is complete, one way or the other.
CleanInv(p) ==
  job[p].op \in {"adopt", "recover"} /\ job[p].step = "cleanup" =>
    /\ journal.op = "adopt"
    /\ \A i \in DOMAIN journal.muts :
         LET m == journal.muts[i] IN
         disk[m.path] = IF durable THEN m.after ELSE m.before

\* What a recovery took aside was a file of the journal in a known state.
TakenFrom(ms, d) ==
  \A k \in DOMAIN d : \E i \in DOMAIN ms :
    /\ d[k].path = ms[i].path /\ d[k].after = ms[i].before
    /\ d[k].before \in {ms[i].before, ms[i].after, Absent}

\* A recovery started from files in known states, and knows what it took
\* aside.
RestoreInv(p) ==
  job[p].op = "recover" /\ job[p].step \in Restoring =>
    LET ms == journal.muts
        d  == job[p].done
    IN  /\ journal.op = "adopt" /\ ~durable
        /\ job[p].todo \subseteq DOMAIN ms
        /\ \A i \in DOMAIN ms : Intact(ms[i])
        /\ TakenFrom(ms, d)
        /\ job[p].step = "place" => d # <<>>
        /\ job[p].step # "unrestore" =>
             \A i \in DOMAIN ms \ job[p].todo :
               \/ disk[ms[i].path] = ms[i].before
               \/ job[p].step = "place" /\ ms[i].path = Last(d).path

\* A rollback, and the way back from a failed one.
RollbackInv(p) ==
  job[p].op = "rollback" /\ job[p].step \in {"back", "reinstall"} =>
    LET ms == journal.muts IN
    /\ journal.op = "rollback" /\ job[p].todo \subseteq DOMAIN ms
    /\ \A i \in DOMAIN ms \ job[p].todo :
         disk[ms[i].path] = IF job[p].step = "back" THEN ms[i].before ELSE ms[i].after

\* Who is not in the lock has done nothing yet.
StartInv(p) ==
  /\ ~Inside(p) => job[p].step \in {"none", "start"}
  /\ job[p].step \in {"none", "start"} => job[p].done = <<>>
  /\ job[p].op = "adopt" => ~Blocked(job[p].plan)
  /\ job[p].op = "rollback" => job[p].id \in DOMAIN receipts

JobInv(p) ==
  StartInv(p) /\ ApplyInv(p) /\ UndoInv(p) /\ CleanInv(p) /\ RestoreInv(p) /\ RollbackInv(p)

AdoptInv ==
  /\ ShapeInv /\ ReceiptsInv /\ JournalInv /\ AcceptedInv
  /\ \A p \in Procs : JobInv(p)

-----------------------------------------------------------------------------
(* Sequences and records.                                                  *)

\* What IsSeq says without a set of values.
LEMMA SeqShape ==
  ASSUME NEW s, IsSeq(s)
  PROVE  Len(s) \in Nat /\ DOMAIN s = 1..Len(s) /\ (s # <<>> => Len(s) \in DOMAIN s)
<1>1. Len(s) \in Nat /\ DOMAIN s = 1..Len(s)
  BY LenProperties DEF IsSeq
<1>2. s # <<>> => Len(s) # 0
  BY EmptySeq DEF IsSeq
<1> QED BY <1>1, <1>2

\* Append adds the last element.
LEMMA SeqAppend ==
  ASSUME NEW s, NEW e, IsSeq(s)
  PROVE  /\ IsSeq(Append(s, e)) /\ Len(Append(s, e)) = Len(s) + 1
         /\ DOMAIN Append(s, e) = 1..(Len(s) + 1)
         /\ Append(s, e)[Len(s) + 1] = e
         /\ \A i \in DOMAIN s : Append(s, e)[i] = s[i]
<1> DEFINE S == {s[i] : i \in DOMAIN s} \cup {e}
<1>1. s \in Seq(S)
  <2>1. Len(s) \in Nat /\ DOMAIN s = 1..Len(s) /\ s \in [1..Len(s) -> S]
    BY LenProperties DEF IsSeq
  <2> QED BY <2>1, SeqDef
<1>2. /\ Append(s, e) \in Seq(S) /\ Len(Append(s, e)) = Len(s) + 1
      /\ \A i \in 1..Len(s) : Append(s, e)[i] = s[i]
      /\ Append(s, e)[Len(s) + 1] = e
  BY <1>1, AppendProperties
<1> HIDE DEF S
<1>3. DOMAIN Append(s, e) = 1..(Len(s) + 1)
  BY <1>2, LenProperties
<1>4. IsSeq(Append(s, e))
  <2> DEFINE t == Append(s, e)
  <2>1. Len(t) \in Nat /\ t \in [1..Len(t) -> {t[i] : i \in DOMAIN t}]
    BY <1>2, LenProperties
  <2> HIDE DEF t
  <2>2. IsSeq(t)
    BY <2>1, SeqDef DEF IsSeq
  <2> QED BY <2>2 DEF t
<1>5. Len(s) \in Nat /\ DOMAIN s = 1..Len(s)
  BY SeqShape
<1> QED BY <1>2, <1>3, <1>4, <1>5

\* Front takes the last element away.
LEMMA SeqFront ==
  ASSUME NEW s, IsSeq(s), s # <<>>
  PROVE  /\ IsSeq(Front(s)) /\ DOMAIN Front(s) = 1..(Len(s) - 1)
         /\ Len(Front(s)) = Len(s) - 1
         /\ \A i \in DOMAIN Front(s) : Front(s)[i] = s[i]
         /\ Last(s) = s[Len(s)]
<1> DEFINE S == {s[i] : i \in DOMAIN s}
           t == Front(s)
<1>1. s \in Seq(S) /\ Len(s) \in Nat /\ Len(s) # 0 /\ DOMAIN s = 1..Len(s)
  BY SeqShape DEF IsSeq
<1>2. t = SubSeq(s, 1, Len(s) - 1)
  BY DEF Front
<1> HIDE DEF S, t
<1>3. /\ t \in Seq(S) /\ Len(t) = Len(s) - 1
      /\ \A i \in 1..(Len(s) - 1) : t[i] = s[i]
  BY <1>1, <1>2, SubSeqProperties
<1>4. DOMAIN t = 1..(Len(s) - 1)
  BY <1>3, LenProperties
<1>5. IsSeq(t)
  <2>1. t \in [1..Len(t) -> {t[i] : i \in DOMAIN t}]
    BY <1>3, LenProperties
  <2>2. Len(t) \in Nat
    BY <1>3, LenProperties
  <2> QED BY <2>1, <2>2, SeqDef DEF IsSeq
<1> QED BY <1>3, <1>4, <1>5 DEF t, Last

\* The empty sequence.
LEMMA SeqEmpty ==
  IsSeq(<<>>) /\ DOMAIN <<>> = {} /\ Len(<<>>) = 0
BY DEF IsSeq

\* One file of the project is written.
LEMMA PutFile ==
  ASSUME NEW d, IsFiles(d), NEW f, NEW c, NEW e, e = Put(d, f, c)
  PROVE  /\ IsFiles(e)
         /\ f \in Files => e[f] = c
         /\ \A g \in Files : g # f => e[g] = d[g]
BY DEF Put, IsFiles

\* One process moves on.
LEMMA Moved ==
  ASSUME ShapeInv, NEW p \in Procs, NEW j, Do(p, j)
  PROVE  /\ job'[p] = j /\ job' = [q \in Procs |-> job'[q]]
         /\ \A q \in Procs : q # p => job'[q] = job[q]
BY DEF ShapeInv, Do

-----------------------------------------------------------------------------
(* Who is in the lock is alone.                                            *)

\* The lock names one process.
LEMMA Alone ==
  ASSUME Exclusive, NEW p \in Procs, NEW q \in Procs, Inside(p), Inside(q)
  PROVE  p = q
BY DEF Exclusive, Me

\* One process moves in the lock at a time.
LEMMA OneMoves ==
  ASSUME LockInv, NEW p \in Procs, NEW recovery \in BOOLEAN,
         Enter(p, recovery) \/ LockStep(p) \/ Leave(p) \/ Die(p) \/ Stay
  PROVE  \A q \in Procs : q # p => (Inside(q)' <=> Inside(q))
<1>1. ctl = [q \in Procs |-> ctl[q]]
  BY DEF LockInv, LockTypeOK
<1>2. ctl' = ctl \/ \E x : ctl' = [ctl EXCEPT ![p] = x]
  BY DEF Enter, LockStep, Claim, Inspect, Check, Reclaim, Sweep, LinkLock, Leave, Die, Stay,
    lockVars, Go
<1> QED BY <1>1, <1>2 DEF Inside, At

\* A step under the lock, whatever it does to the files, is none of the
\* others' business.
LEMMA OthersKeep ==
  ASSUME AdoptInv, LockInv, NEW p \in Procs, Inside(p), NEW j, Do(p, j),
         Stay \/ Leave(p) \/ Die(p),
         receipts' = receipts \/ \E r : receipts' = Append(receipts, r)
  PROVE  \A q \in Procs : q # p => JobInv(q)'
<1> SUFFICES ASSUME NEW q \in Procs, q # p PROVE JobInv(q)'
  OBVIOUS
<1>1. job'[q] = job[q]
  BY Moved DEF AdoptInv
<1>2. ~Inside(q) /\ ~Inside(q)'
  BY Alone, OneMoves DEF LockInv
<1>3. job[q].step \in {"none", "start"} /\ StartInv(q)
  BY <1>2 DEF AdoptInv, JobInv, StartInv
<1>4. DOMAIN receipts \subseteq DOMAIN receipts'
  BY SeqAppend, SeqShape DEF AdoptInv, ShapeInv
<1>5. StartInv(q)'
  BY <1>1, <1>2, <1>3, <1>4 DEF StartInv
<1> QED BY <1>1, <1>3, <1>5 DEF JobInv, ApplyInv, UndoInv, CleanInv, RestoreInv, RollbackInv,
      Applying, Undoing, Restoring

\* A step that touches no file and no record is told by who takes it.
LEMMA QuietStep ==
  ASSUME AdoptInv, LockInv, NEW p \in Procs, NEW j, Do(p, j), NEW recovery \in BOOLEAN,
         Enter(p, recovery) \/ LockStep(p) \/ Leave(p) \/ Die(p) \/ Stay,
         UNCHANGED <<files, records, touched>>,
         IsJob(j), IsSeq(j.done), JobInv(p)'
  PROVE  AdoptInv' /\ UNCHANGED <<Settled, receipts>>
<1>1. UNCHANGED <<disk, tmp, bak, journal, durable, receipts, touched>>
  BY DEF files, records
<1>2. job'[p] = j /\ job' = [q \in Procs |-> job'[q]] /\ \A q \in Procs : q # p => job'[q] = job[q]
  BY Moved DEF AdoptInv
<1>3. ShapeInv'
  BY <1>1, <1>2 DEF AdoptInv, ShapeInv
<1>4. ReceiptsInv' /\ JournalInv'
  BY <1>1 DEF AdoptInv, ReceiptsInv, JournalInv
<1>5. AcceptedInv'
  BY <1>1 DEF AdoptInv, AcceptedInv, Fine, Intact
<1>6. UNCHANGED <<Settled, receipts>>
  BY <1>1 DEF Settled
<1>7. ASSUME NEW q \in Procs, q # p PROVE JobInv(q)'
  <2>1. JobInv(q) /\ job'[q] = job[q] /\ (Inside(q)' <=> Inside(q))
    BY <1>2, <1>7, OneMoves DEF AdoptInv
  <2>2. StartInv(q)' /\ UndoInv(q)' /\ CleanInv(q)' /\ RollbackInv(q)'
    BY <1>1, <2>1 DEF JobInv, StartInv, UndoInv, CleanInv, RollbackInv
  <2>3. ApplyInv(q)'
    BY <1>1, <1>6, <2>1 DEF JobInv, ApplyInv, Now
  <2>4. RestoreInv(q)'
    BY <1>1, <2>1 DEF JobInv, RestoreInv, Intact
  <2> QED BY <2>2, <2>3, <2>4 DEF JobInv
<1> QED BY <1>3, <1>4, <1>5, <1>6, <1>7 DEF AdoptInv

\* A process that does nothing.
LEMMA IdleJob ==
  /\ IsJob(Idle) /\ Idle.op = "none" /\ Idle.step = "none" /\ Idle.id = 0 /\ Idle.todo = {}
  /\ Idle.done = <<>>
BY DEF Idle, IsJob

\* A process at rest knows nothing.
LEMMA Rests ==
  ASSUME NEW p \in Procs, job'[p] = Idle
  PROVE  JobInv(p)' /\ IsJob(Idle) /\ IsSeq(Idle.done)
BY SeqEmpty DEF Idle, IsJob, JobInv, StartInv, ApplyInv, UndoInv, CleanInv, RestoreInv,
  RollbackInv, Applying, Undoing, Restoring

-----------------------------------------------------------------------------
(* The steps that only decide what comes next.                             *)

\* An adoption asks for the lock with a plan that nothing blocks.
LEMMA BeginAdoptStep ==
  ASSUME AdoptInv, LockInv, NEW p \in Procs, BeginAdopt(p)
  PROVE  AdoptInv' /\ UNCHANGED <<Settled, receipts>>
<1>p. PICK opts \in Options : \E j :
        /\ ~Blocked(Plan(disk, opts)) /\ Do(p, j)
        /\ j = [Idle EXCEPT !.op = "adopt", !.step = "start", !.plan = Plan(disk, opts)]
  BY DEF BeginAdopt
<1>1. PICK j :
        /\ ~Blocked(Plan(disk, opts)) /\ Do(p, j)
        /\ j = [Idle EXCEPT !.op = "adopt", !.step = "start", !.plan = Plan(disk, opts)]
  BY <1>p
<1>2. Enter(p, FALSE) /\ UNCHANGED <<files, records, touched>>
  BY DEF BeginAdopt, world
<1>3. j.op = "adopt" /\ j.step = "start" /\ j.plan = Plan(disk, opts) /\ j.done = <<>> /\ IsJob(j)
  BY <1>1, IdleJob DEF IsJob
<1>4. job'[p] = j
  BY <1>1, Moved DEF AdoptInv
<1>5. JobInv(p)'
  BY <1>1, <1>3, <1>4 DEF JobInv, StartInv, ApplyInv, UndoInv, CleanInv, RestoreInv, RollbackInv,
    Applying, Undoing, Restoring
<1> QED BY <1>1, <1>2, <1>3, <1>5, SeqEmpty, QuietStep

\* A recovery or a rollback asks for the lock.
LEMMA BeginOtherStep ==
  ASSUME AdoptInv, LockInv, NEW p \in Procs,
         BeginRecover(p) \/ \E i \in DOMAIN receipts : BeginRollback(p, i)
  PROVE  AdoptInv' /\ UNCHANGED <<Settled, receipts>>
<1>1. PICK j : /\ Do(p, j) /\ IsJob(j) /\ j.op \in {"recover", "rollback"} /\ j.step = "start"
               /\ j.done = <<>> /\ (j.op = "rollback" => j.id \in DOMAIN receipts)
  <2>1. CASE BeginRecover(p)
    <3>1. PICK j : Do(p, j) /\ j = [Idle EXCEPT !.op = "recover", !.step = "start"]
      BY <2>1 DEF BeginRecover
    <3>2. IsJob(j) /\ j.op = "recover" /\ j.step = "start" /\ j.done = <<>>
      BY <3>1, IdleJob DEF IsJob
    <3> QED BY <3>1, <3>2
  <2>2. ASSUME NEW i \in DOMAIN receipts, BeginRollback(p, i)
        PROVE  \E j : /\ Do(p, j) /\ IsJob(j) /\ j.op \in {"recover", "rollback"}
                      /\ j.step = "start" /\ j.done = <<>>
                      /\ (j.op = "rollback" => j.id \in DOMAIN receipts)
    <3>1. PICK j : Do(p, j) /\ j = [Idle EXCEPT !.op = "rollback", !.step = "start", !.id = i]
      BY <2>2 DEF BeginRollback
    <3>2. IsJob(j) /\ j.op = "rollback" /\ j.step = "start" /\ j.done = <<>> /\ j.id = i
      BY <3>1, IdleJob DEF IsJob
    <3> QED BY <3>1, <3>2
  <2> QED BY <2>1, <2>2
<1>2. Enter(p, TRUE) /\ UNCHANGED <<files, records, touched>>
  BY DEF BeginRecover, BeginRollback, world
<1>3. job'[p] = j /\ UNCHANGED receipts
  BY <1>1, <1>2, Moved DEF AdoptInv, records
<1>4. JobInv(p)'
  BY <1>1, <1>3 DEF JobInv, StartInv, ApplyInv, UndoInv, CleanInv, RestoreInv, RollbackInv,
    Applying, Undoing, Restoring
<1> QED BY <1>1, <1>2, <1>4, SeqEmpty, QuietStep

\* Before it is in the lock a process has nothing but its plan.
LEMMA LockingStep ==
  ASSUME AdoptInv, LockInv, NEW p \in Procs, Locking(p)
  PROVE  AdoptInv' /\ UNCHANGED <<Settled, receipts>>
<1>1. LockStep(p) /\ UNCHANGED <<files, records, touched>> /\ UNCHANGED receipts
  BY DEF Locking, world, records
<1>2. ~Inside(p)
  BY <1>1 DEF LockStep, Claim, Inspect, Check, Reclaim, Sweep, LinkLock, Inside, At
<1>3. JobInv(p) /\ IsJob(job[p]) /\ IsSeq(job[p].done) /\ job[p].step \in {"none", "start"}
  BY <1>2 DEF AdoptInv, ShapeInv, JobInv, StartInv
<1>4. CASE Do(p, Idle)
  BY <1>1, <1>4, Moved, Rests, QuietStep DEF AdoptInv
<1>5. CASE Do(p, job[p])
  <2>1. job'[p] = job[p]
    BY <1>5, Moved DEF AdoptInv
  <2>2. JobInv(p)'
    BY <1>1, <1>3, <2>1 DEF JobInv, StartInv, ApplyInv, UndoInv, CleanInv, RestoreInv,
      RollbackInv, Applying, Undoing, Restoring
  <2> QED BY <1>1, <1>3, <1>5, <2>2, QuietStep
<1> QED BY <1>4, <1>5 DEF Locking

\* A process that dies, or gives up, leaves the files as they are.
LEMMA CrashStep ==
  ASSUME AdoptInv, LockInv, NEW p \in Procs, Crash(p) \/ Abandon(p)
  PROVE  AdoptInv' /\ UNCHANGED <<Settled, receipts>>
<1>1. Do(p, Idle) /\ (Die(p) \/ Leave(p)) /\ UNCHANGED <<files, records, touched>>
  BY DEF Crash, Abandon, Exit, world
<1> QED BY <1>1, Moved, Rests, QuietStep DEF AdoptInv

\* A recovery finds every file in a state it knows, or leaves.
LEMMA StartRecoverStep ==
  ASSUME AdoptInv, LockInv, NEW p \in Procs, StartRecover(p)
  PROVE  AdoptInv' /\ UNCHANGED <<Settled, receipts>>
<1>1. /\ job[p].op = "recover" /\ job[p].step = "start" /\ Inside(p)
      /\ UNCHANGED <<files, records, touched>>
  BY DEF StartRecover, Doing, world
<1>2. /\ IsJob(job[p]) /\ IsSeq(job[p].done) /\ job[p].done = <<>> /\ JournalInv
      /\ UNCHANGED <<disk, journal, durable, receipts>>
  BY <1>1 DEF AdoptInv, ShapeInv, JobInv, StartInv, files, records
<1>3. CASE Exit(p)
  BY <1>1, <1>3, Moved, Rests, QuietStep DEF AdoptInv, Exit
<1>4. ASSUME NEW j, Do(p, j), Stay, journal.op = "rollback",
             j = [job[p] EXCEPT !.op = "rollback", !.id = journal.id]
      PROVE  AdoptInv' /\ UNCHANGED <<Settled, receipts>>
  <2>1. /\ IsJob(j) /\ j.op = "rollback" /\ j.step = "start" /\ j.id = journal.id
        /\ j.done = <<>>
    BY <1>1, <1>2, <1>4 DEF IsJob
  <2>2. job'[p] = j
    BY <1>4, Moved DEF AdoptInv
  <2>3. JobInv(p)'
    BY <1>2, <1>4, <2>1, <2>2 DEF JobInv, StartInv, ApplyInv, UndoInv, CleanInv, RestoreInv,
      RollbackInv, Applying, Undoing, Restoring, JournalInv
  <2> QED BY <1>1, <1>2, <1>4, <2>1, <2>3, QuietStep
<1>5. ASSUME NEW j, Do(p, j), Stay, journal.op = "adopt", durable,
             \A i \in DOMAIN journal.muts : disk[journal.muts[i].path] = journal.muts[i].after,
             j = [job[p] EXCEPT !.step = "cleanup"]
      PROVE  AdoptInv' /\ UNCHANGED <<Settled, receipts>>
  <2>1. IsJob(j) /\ j.op = "recover" /\ j.step = "cleanup" /\ j.done = <<>>
    BY <1>1, <1>2, <1>5 DEF IsJob
  <2>2. job'[p] = j /\ Inside(p)'
    BY <1>1, <1>5, Moved DEF AdoptInv, Stay, lockVars, Inside, At
  <2>3. JobInv(p)'
    BY <1>2, <1>5, <2>1, <2>2 DEF JobInv, StartInv, ApplyInv, UndoInv, CleanInv, RestoreInv,
      RollbackInv, Applying, Undoing, Restoring
  <2> QED BY <1>1, <1>2, <1>5, <2>1, <2>3, QuietStep
<1>6. ASSUME NEW j, Do(p, j), Stay, journal.op = "adopt", ~durable,
             \A i \in DOMAIN journal.muts : Intact(journal.muts[i]),
             j = [job[p] EXCEPT !.step = "restore", !.todo = Restorable(journal.muts)]
      PROVE  AdoptInv' /\ UNCHANGED <<Settled, receipts>>
  <2>1. /\ IsJob(j) /\ j.op = "recover" /\ j.step = "restore" /\ j.done = <<>>
        /\ j.todo = Restorable(journal.muts)
    BY <1>1, <1>2, <1>6 DEF IsJob
  <2>2. job'[p] = j /\ Inside(p)'
    BY <1>1, <1>6, Moved DEF AdoptInv, Stay, lockVars, Inside, At
  <2>3. /\ Restorable(journal.muts) \subseteq DOMAIN journal.muts
        /\ \A i \in DOMAIN journal.muts \ Restorable(journal.muts) :
             disk[journal.muts[i].path] = journal.muts[i].before
    BY <1>6 DEF Restorable, Intact
  <2>4. RestoreInv(p)'
    BY <1>2, <1>6, <2>1, <2>2, <2>3, SeqEmpty DEF RestoreInv, Intact, TakenFrom
  <2>5. JobInv(p)'
    BY <2>1, <2>2, <2>4 DEF JobInv, StartInv, ApplyInv, UndoInv, CleanInv, RollbackInv,
      Applying, Undoing
  <2> QED BY <1>1, <1>2, <1>6, <2>1, <2>5, QuietStep
<1> QED BY <1>3, <1>4, <1>5, <1>6 DEF StartRecover

\* A restoration is complete, or begins to take its steps back.
LEMMA RestoreTurns ==
  ASSUME AdoptInv, LockInv, NEW p \in Procs, Restored(p) \/ RestoreFails(p)
  PROVE  AdoptInv' /\ UNCHANGED <<Settled, receipts>>
<1>1. /\ job[p].op = "recover" /\ job[p].step \in {"restore", "place"} /\ Inside(p) /\ Stay
      /\ UNCHANGED <<files, records, touched>>
  BY DEF Restored, RestoreFails, Doing, world
<1>2. /\ IsJob(job[p]) /\ IsSeq(job[p].done) /\ RestoreInv(p)
      /\ UNCHANGED <<disk, journal, durable, receipts>>
  BY <1>1 DEF AdoptInv, ShapeInv, JobInv, files, records
<1>3. PICK j : /\ Do(p, j)
               /\ \/ /\ job[p].step = "restore" /\ job[p].todo = {}
                     /\ j = [job[p] EXCEPT !.step = "cleanup"]
                  \/ j = [job[p] EXCEPT !.step = "unrestore"]
  BY DEF Restored, RestoreFails, Doing
<1>4. job'[p] = j /\ Inside(p)'
  BY <1>1, <1>3, Moved DEF AdoptInv, Stay, lockVars, Inside, At
<1>5. CASE job[p].step = "restore" /\ job[p].todo = {} /\ j = [job[p] EXCEPT !.step = "cleanup"]
  <2>1. IsJob(j) /\ j.op = "recover" /\ j.step = "cleanup" /\ j.done = job[p].done
    BY <1>1, <1>2, <1>5 DEF IsJob
  <2>2. CleanInv(p)'
    BY <1>1, <1>2, <1>4, <1>5, <2>1 DEF CleanInv, RestoreInv, Restoring
  <2>3. JobInv(p)'
    BY <1>4, <2>1, <2>2 DEF JobInv, StartInv, ApplyInv, UndoInv, RestoreInv,
      RollbackInv, Applying, Undoing, Restoring
  <2> QED BY <1>1, <1>2, <1>3, <2>1, <2>3, QuietStep
<1>6. CASE j = [job[p] EXCEPT !.step = "unrestore"]
  <2>1. /\ IsJob(j) /\ j.op = "recover" /\ j.step = "unrestore" /\ j.done = job[p].done
        /\ j.todo = job[p].todo
    BY <1>1, <1>2, <1>6 DEF IsJob
  <2>2. RestoreInv(p)'
    BY <1>1, <1>2, <1>4, <2>1 DEF RestoreInv, Restoring, Intact
  <2>3. JobInv(p)'
    BY <1>4, <2>1, <2>2 DEF JobInv, StartInv, ApplyInv, UndoInv, CleanInv,
      RollbackInv, Applying, Undoing, Restoring
  <2> QED BY <1>1, <1>2, <1>3, <2>1, <2>3, QuietStep
<1> QED BY <1>3, <1>5, <1>6

\* A failed rollback begins with all the files to reinstall.
LEMMA RollbackFailsStep ==
  ASSUME AdoptInv, LockInv, NEW p \in Procs, RollbackFails(p)
  PROVE  AdoptInv' /\ UNCHANGED <<Settled, receipts>>
<1>1. /\ job[p].op = "rollback" /\ job[p].step = "back" /\ Inside(p) /\ Stay
      /\ UNCHANGED <<files, records, touched>>
  BY DEF RollbackFails, Doing, world
<1>2. /\ IsJob(job[p]) /\ IsSeq(job[p].done) /\ RollbackInv(p) /\ StartInv(p)
      /\ UNCHANGED <<disk, journal, durable, receipts>>
  BY <1>1 DEF AdoptInv, ShapeInv, JobInv, files, records
<1>3. PICK j : Do(p, j)
               /\ j = [job[p] EXCEPT !.step = "reinstall", !.todo = DOMAIN journal.muts]
  BY DEF RollbackFails
<1>4. job'[p] = j /\ Inside(p)'
  BY <1>1, <1>3, Moved DEF AdoptInv, Stay, lockVars, Inside, At
<1>5. /\ IsJob(j) /\ j.op = "rollback" /\ j.step = "reinstall" /\ j.done = job[p].done
      /\ j.todo = DOMAIN journal.muts /\ j.id = job[p].id
  BY <1>1, <1>2, <1>3 DEF IsJob
<1>6. RollbackInv(p)'
  BY <1>1, <1>2, <1>4, <1>5 DEF RollbackInv
<1>7. JobInv(p)'
  BY <1>1, <1>2, <1>4, <1>5, <1>6 DEF JobInv, StartInv, ApplyInv, UndoInv, CleanInv,
    RestoreInv, Applying, Undoing, Restoring
<1> QED BY <1>1, <1>2, <1>3, <1>5, <1>7, QuietStep

-----------------------------------------------------------------------------
(* The project a transaction leaves, as a function of files and journal.   *)

SettledOf(d, j, u) ==
  [f \in Files |->
     LET ms == {i \in DOMAIN j.muts : j.muts[i].path = f} IN
     IF ms = {} THEN d[f]
     ELSE LET m == j.muts[CHOOSE i \in ms : TRUE]
          IN  IF j.op = "adopt" /\ ~u THEN m.before ELSE m.after]

\* What a finished transaction makes of a journalled file.
Outcome(j, u, i) ==
  IF j.op = "adopt" /\ ~u THEN j.muts[i].before ELSE j.muts[i].after

\* It is what the refinement mapping says.
LEMMA SettledIs == Settled = SettledOf(disk, journal, durable)
BY DEF Settled, SettledOf

\* A journalled file as its mutation says, another as it is.
LEMMA SettledAt ==
  ASSUME NEW d, NEW j, NEW u, Distinct(j.muts)
  PROVE  /\ \A i \in DOMAIN j.muts : SettledOf(d, j, u)[j.muts[i].path] = Outcome(j, u, i)
         /\ \A f \in Files \ PathsOf(j.muts) : SettledOf(d, j, u)[f] = d[f]
<1>1. ASSUME NEW i \in DOMAIN j.muts
      PROVE  SettledOf(d, j, u)[j.muts[i].path] = Outcome(j, u, i)
  <2> DEFINE f == j.muts[i].path
             ms == {k \in DOMAIN j.muts : j.muts[k].path = f}
  <2>1. f \in Files /\ ms = {i}
    BY DEF Distinct, PathsOf
  <2>2. (CHOOSE k \in ms : TRUE) = i
    BY <2>1
  <2> QED BY <2>1, <2>2 DEF SettledOf, Outcome
<1>2. ASSUME NEW f \in Files \ PathsOf(j.muts)
      PROVE  SettledOf(d, j, u)[f] = d[f]
  <2>1. {k \in DOMAIN j.muts : j.muts[k].path = f} = {}
    BY <1>2 DEF PathsOf
  <2> QED BY <2>1 DEF SettledOf
<1> QED BY <1>1, <1>2

\* Two projects are the same when their files are.
LEMMA SettledSame ==
  ASSUME NEW d, NEW j, NEW u, NEW e, NEW k, NEW w,
         \A f \in Files : SettledOf(d, j, u)[f] = SettledOf(e, k, w)[f]
  PROVE  SettledOf(d, j, u) = SettledOf(e, k, w)
BY DEF SettledOf

\* Writing a journalled file does not change what the transaction leaves.
LEMMA SettledWrite ==
  ASSUME NEW d, NEW j, NEW u, NEW e, Distinct(j.muts),
         \A f \in Files \ PathsOf(j.muts) : e[f] = d[f]
  PROVE  SettledOf(e, j, u) = SettledOf(d, j, u)
<1>1. \A f \in Files : SettledOf(e, j, u)[f] = SettledOf(d, j, u)[f]
  BY SettledAt DEF PathsOf
<1> QED BY <1>1, SettledSame

\* The files are as the transaction leaves them.
Complete(d, j, u) == \A i \in DOMAIN j.muts : d[j.muts[i].path] = Outcome(j, u, i)

\* Such files need no journal.
LEMMA SettledClosed ==
  ASSUME NEW d, NEW j, NEW u, IsFiles(d), Distinct(j.muts), Complete(d, j, u)
  PROVE  SettledOf(d, j, u) = d
<1>1. \A f \in Files : SettledOf(d, j, u)[f] = d[f]
  BY SettledAt DEF PathsOf, Complete
<1>2. SettledOf(d, j, u) = [f \in Files |-> SettledOf(d, j, u)[f]]
  BY DEF SettledOf
<1> QED BY <1>1, <1>2 DEF IsFiles

\* No journal, nothing to put back: the project is the files.
LEMMA NothingOpen ==
  ASSUME NEW d, NEW j, NEW u, IsFiles(d), j.muts = <<>>
  PROVE  SettledOf(d, j, u) = d
<1>1. \A f \in Files : SettledOf(d, j, u)[f] = d[f]
  BY SeqEmpty DEF SettledOf
<1>2. SettledOf(d, j, u) = [f \in Files |-> SettledOf(d, j, u)[f]]
  BY DEF SettledOf
<1> QED BY <1>1, <1>2 DEF IsFiles

\* A plan is made of the files it was made for.
LEMMA PlanOf ==
  ASSUME NEW d, NEW opts, NEW plan, plan = Plan(d, opts)
  PROVE  /\ Written(plan) \subseteq Files /\ LockFile \notin Changes(plan)
         /\ plan.prior = d[LockFile]
         /\ \A f \in Changes(plan) : plan.actions[f].before = d[f]
BY PayloadAssumption DEF Plan, Written, Changes, Selected, ActionFor, Files

-----------------------------------------------------------------------------
(* The steps under the lock that touch the files or the records.           *)

\* Who takes such a step leaves everyone else's knowledge alone.
LEMMA InsideStep ==
  ASSUME AdoptInv, LockInv, NEW p \in Procs, Inside(p), NEW j, Do(p, j),
         Stay \/ Leave(p) \/ Die(p),
         receipts' = receipts \/ \E r : receipts' = Append(receipts, r),
         IsJob(j), IsSeq(j.done),
         IsFiles(disk'),
         IsFiles(tmp'), IsFiles(bak'),
         IsJournal(journal'), IsSeq(journal'.muts), durable' \in BOOLEAN,
         ReceiptsInv', JournalInv', AcceptedInv', JobInv(p)'
  PROVE  AdoptInv'
<1>1. \A q \in Procs : q # p => JobInv(q)'
  BY OthersKeep
<1>2. IsSeq(receipts')
  <2>1. IsSeq(receipts)
    BY DEF AdoptInv, ShapeInv
  <2>2. CASE \E r : receipts' = Append(receipts, r)
    BY <2>1, <2>2, SeqAppend
  <2> QED BY <2>1, <2>2
<1>3. job'[p] = j /\ job' = [q \in Procs |-> job'[q]] /\ \A q \in Procs : q # p => job'[q] = job[q]
  BY Moved DEF AdoptInv
<1>4. ShapeInv'
  BY <1>2, <1>3 DEF AdoptInv, ShapeInv
<1> QED BY <1>1, <1>4 DEF AdoptInv

\* What holds of an operation that is about to take a step.
LEMMA Known ==
  ASSUME AdoptInv, NEW p \in Procs
  PROVE  /\ IsFiles(disk)
         /\ IsFiles(tmp) /\ IsFiles(bak)
         /\ IsJournal(journal) /\ IsSeq(journal.muts) /\ durable \in BOOLEAN /\ IsSeq(receipts)
         /\ IsJob(job[p]) /\ IsSeq(job[p].done)
         /\ ReceiptsInv /\ JournalInv /\ AcceptedInv /\ JobInv(p)
         /\ Distinct(journal.muts)
         /\ DOMAIN journal.muts = 1..Len(journal.muts) /\ Len(journal.muts) \in Nat
BY SeqShape DEF AdoptInv, ShapeInv, JournalInv

\* The journal is opened on the files as they are.
LEMMA StartAdoptStep ==
  ASSUME AdoptInv, LockInv, NEW p \in Procs, StartAdopt(p)
  PROVE  AdoptInv' /\ UNCHANGED <<Settled, receipts>>
<1>0. IsJob(job[p])
  BY Known
<1>1. /\ job[p].op = "adopt" /\ job[p].step = "start" /\ Inside(p)
      /\ UNCHANGED <<files, durable, receipts, disk, tmp, bak>>
  BY DEF StartAdopt, Doing, files
<1>2. job[p].done = <<>> /\ ~Blocked(job[p].plan)
  BY <1>1, Known DEF JobInv, StartInv
<1>3. CASE Exit(p) /\ UNCHANGED <<journal, touched>>
  BY <1>1, <1>3, Moved, Rests, QuietStep DEF AdoptInv, Exit, files, records
<1>4. CASE ~(Exit(p) /\ UNCHANGED <<journal, touched>>)
  <2>1. /\ journal = NoJournal /\ Plan(disk, job[p].plan.opts) = job[p].plan
        /\ journal' = [op |-> "adopt", muts |-> <<>>, id |-> Len(receipts) + 1]
        /\ touched' = {} /\ Stay
    BY <1>4 DEF StartAdopt
  <2>2. PICK j : /\ Do(p, j)
                 /\ j = [job[p] EXCEPT !.step = "prepare", !.todo = Written(job[p].plan)]
    BY <1>4 DEF StartAdopt, Written
  <2>3. /\ IsJob(j) /\ j.op = "adopt" /\ j.step = "prepare" /\ j.plan = job[p].plan
        /\ j.todo = Written(job[p].plan) /\ j.done = <<>>
    BY <1>0, <1>1, <1>2, <2>2 DEF IsJob
  <2>4. job'[p] = j /\ Inside(p)'
    BY <1>1, <2>1, <2>2, Moved DEF AdoptInv, Stay, lockVars, Inside, At
  <2>5. journal.muts = <<>> /\ ~durable /\ journal'.muts = <<>> /\ journal'.op = "adopt"
    BY <2>1, Known DEF NoJournal, JournalInv
  <2>6. Settled = disk /\ Settled' = disk'
    <3>2. SettledOf(disk, journal, durable) = disk /\ SettledOf(disk, journal', durable') = disk
      BY <2>5, Known, NothingOpen
    <3> QED BY <1>1, <3>2 DEF Settled, SettledOf
  <2>7. ReceiptsInv'
    BY <1>1, Known DEF ReceiptsInv
  <2>8. JournalInv' /\ AcceptedInv'
    BY <1>1, <2>5, SeqEmpty DEF JournalInv, AcceptedInv, Distinct, PathsOf
  <2>9. ApplyInv(p)'
    BY <1>1, <1>2, <2>1, <2>3, <2>4, <2>5, <2>6, SeqEmpty DEF ApplyInv, PathsOf
  <2>10. JobInv(p)'
    BY <1>2, <2>3, <2>4, <2>9 DEF JobInv, StartInv, UndoInv, CleanInv, RestoreInv, RollbackInv,
      Undoing, Restoring
  <2>11. IsJournal(journal') /\ IsSeq(journal'.muts) /\ IsSeq(j.done)
    BY <2>1, <2>3, SeqEmpty DEF IsJournal
  <2>12. AdoptInv'
    BY <1>1, <2>1, <2>2, <2>3, <2>7, <2>8, <2>10, <2>11, Known, InsideStep
  <2> QED BY <1>1, <2>6, <2>12
<1> QED BY <1>3, <1>4

\* The write-ahead entry names a file that no entry named, as it is.
LEMMA PrepareStep ==
  ASSUME AdoptInv, LockInv, NEW p \in Procs, Prepare(p)
  PROVE  AdoptInv' /\ UNCHANGED <<Settled, receipts>>
<1> DEFINE ms == journal.muts
<1>0. IsJob(job[p])
  BY Known
<1>1. /\ job[p].op = "adopt" /\ job[p].step = "prepare" /\ Inside(p) /\ Stay
      /\ UNCHANGED <<disk, tmp, bak, durable, receipts, touched>>
  BY DEF Prepare, Doing, files, world
<1>p. PICK f \in job[p].todo : \E m, j :
        /\ m = Mutation(f, disk[f], After(p, f))
        /\ journal' = [journal EXCEPT !.muts = Append(@, m)]
        /\ Do(p, j)
        /\ j = [job[p] EXCEPT !.step = "stage", !.todo = @ \ {f}, !.done = Append(@, m)]
  BY DEF Prepare
<1>2. PICK m, j :
        /\ m = Mutation(f, disk[f], After(p, f))
        /\ journal' = [journal EXCEPT !.muts = Append(@, m)]
        /\ Do(p, j)
        /\ j = [job[p] EXCEPT !.step = "stage", !.todo = @ \ {f}, !.done = Append(@, m)]
  BY <1>p
<1>3. ApplyInv(p) /\ StartInv(p)
  BY Known DEF JobInv
<1>4. /\ journal.op = "adopt" /\ ~durable /\ job[p].done = ms
      /\ job[p].todo \cap PathsOf(ms) = {} /\ job[p].todo \cup PathsOf(ms) = Written(job[p].plan)
      /\ job[p].plan = Plan(Settled, job[p].plan.opts)
      /\ \A i \in DOMAIN ms : /\ Follows(job[p].plan, ms[i])
                              /\ disk[ms[i].path] = ms[i].after /\ bak[ms[i].path] = ms[i].before
  BY <1>1, <1>3 DEF ApplyInv, Applying
<1>5. /\ IsJob(j) /\ j.op = "adopt" /\ j.step = "stage" /\ j.plan = job[p].plan
      /\ j.todo = job[p].todo \ {f} /\ j.done = Append(ms, m)
  BY <1>0, <1>1, <1>2, <1>4 DEF IsJob
<1>6. job'[p] = j /\ Inside(p)'
  BY <1>1, <1>2, Moved DEF AdoptInv, Stay, lockVars, Inside, At
<1>7. m.path = f /\ m.before = disk[f] /\ m.after = After(p, f)
  BY <1>2 DEF Mutation
<1>8. journal'.op = "adopt" /\ journal'.muts = Append(ms, m) /\ IsJournal(journal')
  BY <1>2, <1>4, Known DEF IsJournal
<1>9. /\ DOMAIN journal'.muts = 1..(Len(ms) + 1) /\ DOMAIN ms = 1..Len(ms) /\ Len(ms) \in Nat
      /\ Len(journal'.muts) = Len(ms) + 1 /\ IsSeq(journal'.muts)
      /\ journal'.muts[Len(ms) + 1] = m /\ \A i \in DOMAIN ms : journal'.muts[i] = ms[i]
  BY <1>8, Known, SeqAppend
<1>10. \A i \in DOMAIN journal'.muts : i \in DOMAIN ms \/ i = Len(ms) + 1
  BY <1>9
<1>11. f \in Files \ PathsOf(ms) /\ f \in Written(job[p].plan)
  BY <1>4, PlanOf
<1>12. Distinct(journal'.muts)
  <2>1. PathsOf(journal'.muts) \subseteq Files
    BY <1>7, <1>9, <1>10, <1>11, Known DEF Distinct, PathsOf
  <2>2. ASSUME NEW a \in DOMAIN journal'.muts, NEW b \in DOMAIN journal'.muts,
               journal'.muts[a].path = journal'.muts[b].path
        PROVE  a = b
    <3>1. Distinct(ms)
      BY Known
    <3>2. \A i \in DOMAIN ms : journal'.muts[i].path # f
      BY <1>9, <1>11 DEF PathsOf
    <3>3. journal'.muts[Len(ms) + 1].path = f
      BY <1>7, <1>9
    <3> QED BY <1>9, <1>10, <2>2, <3>1, <3>2, <3>3 DEF Distinct
  <2> QED BY <2>1, <2>2 DEF Distinct
<1>13. UNCHANGED Settled
  <2>1. /\ \A i \in DOMAIN ms : SettledOf(disk, journal, durable)[ms[i].path] = ms[i].before
        /\ \A g \in Files \ PathsOf(ms) : SettledOf(disk, journal, durable)[g] = disk[g]
    BY <1>4, Known, SettledAt DEF Outcome
  <2>2. /\ \A i \in DOMAIN journal'.muts :
             SettledOf(disk, journal', durable)[journal'.muts[i].path] = Outcome(journal', durable, i)
        /\ \A g \in Files \ PathsOf(journal'.muts) :
             SettledOf(disk, journal', durable)[g] = disk[g]
    BY <1>12, SettledAt
  <2>3. \A i \in DOMAIN journal'.muts : Outcome(journal', durable, i) = journal'.muts[i].before
    BY <1>4, <1>8 DEF Outcome
  <2>4. ASSUME NEW g \in Files
        PROVE  SettledOf(disk, journal', durable)[g] = SettledOf(disk, journal, durable)[g]
    <3>1. CASE \E i \in DOMAIN ms : ms[i].path = g
      BY <1>9, <2>1, <2>2, <2>3, <3>1
    <3>2. CASE g = f
      <4>1. SettledOf(disk, journal', durable)[f] = m.before
        BY <1>7, <1>9, <2>2, <2>3
      <4>2. SettledOf(disk, journal, durable)[f] = disk[f]
        BY <1>11, <2>1
      <4> QED BY <1>7, <3>2, <4>1, <4>2
    <3>3. CASE g \notin PathsOf(ms) /\ g # f
      <4>1. g \notin PathsOf(journal'.muts)
        BY <1>7, <1>9, <1>10, <3>3 DEF PathsOf
      <4> QED BY <2>1, <2>2, <3>3, <4>1
    <3> QED BY <3>1, <3>2, <3>3 DEF PathsOf
  <2>5. SettledOf(disk, journal', durable) = SettledOf(disk, journal, durable)
    BY <2>4, SettledSame
  <2> QED BY <1>1, <2>5 DEF Settled, SettledOf
<1>14. Settled[f] = disk[f]
  BY <1>11, Known, SettledAt, SettledIs
<1>15. Follows(job[p].plan, m)
  <2>1. After(p, f) = IF f = LockFile THEN NewLock(job[p].plan)
                      ELSE job[p].plan.actions[f].after
    BY DEF After
  <2>2. f = LockFile => job[p].plan.prior = Settled[LockFile]
    BY <1>4, PlanOf
  <2>3. f # LockFile => job[p].plan.actions[f].before = Settled[f]
    BY <1>4, <1>11, PlanOf DEF Written
  <2> QED BY <1>7, <1>14, <2>1, <2>2, <2>3 DEF Follows
<1>16. PathsOf(journal'.muts) = PathsOf(ms) \cup {f}
  BY <1>7, <1>9, <1>10 DEF PathsOf
<1> HIDE DEF ms
<1>17. ReceiptsInv'
  BY <1>1, Known DEF ReceiptsInv
<1>18. JournalInv'
  BY <1>1, <1>4, <1>8, <1>12 DEF JournalInv
<1>19. AcceptedInv'
  BY <1>1, <1>4, <1>7, <1>8, <1>9, <1>10 DEF AcceptedInv, Fine, Intact
<1>20. ApplyInv(p)'
  <2>1. \A i \in DOMAIN journal'.muts : Follows(job[p].plan, journal'.muts[i])
    BY <1>4, <1>9, <1>10, <1>15
  <2>2. \A i \in DOMAIN journal'.muts : i # Len(journal'.muts) =>
          disk[journal'.muts[i].path] = journal'.muts[i].after
          /\ bak[journal'.muts[i].path] = journal'.muts[i].before
    BY <1>4, <1>9, <1>10
  <2>3. j.todo \cap PathsOf(journal'.muts) = {}
        /\ j.todo \cup PathsOf(journal'.muts) = Written(job[p].plan)
    BY <1>4, <1>5, <1>16
  <2>4. journal'.muts[Len(journal'.muts)] = m /\ Len(journal'.muts) \in DOMAIN journal'.muts
    BY <1>9
  <2> QED BY <1>1, <1>4, <1>5, <1>6, <1>7, <1>8, <1>13, <2>1, <2>2, <2>3, <2>4 DEF ApplyInv, Now
<1>21. JobInv(p)'
  BY <1>1, <1>3, <1>5, <1>6, <1>20 DEF JobInv, StartInv, UndoInv, CleanInv, RestoreInv, RollbackInv,
    Undoing, Restoring
<1>22. AdoptInv'
  BY <1>1, <1>2, <1>5, <1>8, <1>9, <1>17, <1>18, <1>19, <1>21, Known, InsideStep
<1> QED BY <1>1, <1>13, <1>22

\* One journalled file is written in a set of files.
PutsAt(d, e, ms, k, c) ==
  /\ IsFiles(e) /\ e[ms[k].path] = c
  /\ \A i \in DOMAIN ms : i # k => e[ms[i].path] = d[ms[i].path]
  /\ \A f \in Files \ PathsOf(ms) : e[f] = d[f]

\* Its name is no other entry's.
LEMMA PutAt ==
  ASSUME NEW d, IsFiles(d), NEW ms, Distinct(ms), NEW k \in DOMAIN ms, NEW c,
         NEW e, e = Put(d, ms[k].path, c)
  PROVE  PutsAt(d, e, ms, k, c)
<1>1. ms[k].path \in Files /\ ms[k].path \in PathsOf(ms)
  BY DEF Distinct, PathsOf
<1>2. \A i \in DOMAIN ms : ms[i].path \in Files /\ (i # k => ms[i].path # ms[k].path)
  BY DEF Distinct, PathsOf
<1> QED BY <1>1, <1>2, PutFile DEF PutsAt

\* One journalled file of the project is written, with what recovery accepts.
LEMMA OneFile ==
  ASSUME AdoptInv, NEW k \in DOMAIN journal.muts, NEW c,
         disk' = Put(disk, journal.muts[k].path, c),
         UNCHANGED <<journal, durable, receipts, touched>>, ~durable,
         c \in {journal.muts[k].before, journal.muts[k].after}
           \/ (c = Absent /\ journal.op = "adopt")
  PROVE  /\ IsFiles(disk') /\ disk'[journal.muts[k].path] = c
         /\ \A i \in DOMAIN journal.muts :
              i # k => disk'[journal.muts[i].path] = disk[journal.muts[i].path]
         /\ AcceptedInv' /\ UNCHANGED Settled
<1>0. IsFiles(disk) /\ Distinct(journal.muts) /\ AcceptedInv
  BY DEF AdoptInv, ShapeInv, JournalInv
<1>1. /\ IsFiles(disk') /\ disk'[journal.muts[k].path] = c
      /\ \A i \in DOMAIN journal.muts :
           i # k => disk'[journal.muts[i].path] = disk[journal.muts[i].path]
      /\ \A f \in Files \ PathsOf(journal.muts) : disk'[f] = disk[f]
  <2>1. PutsAt(disk, disk', journal.muts, k, c)
    BY <1>0, PutAt
  <2> QED BY <2>1 DEF PutsAt
<1>2. SettledOf(disk', journal, durable) = SettledOf(disk, journal, durable)
  BY <1>0, <1>1, SettledWrite
<1>3. UNCHANGED Settled
  BY <1>2 DEF Settled, SettledOf
<1>4. AcceptedInv'
  <2> SUFFICES ASSUME NEW i \in DOMAIN journal.muts, journal.muts[i].path \notin touched
               PROVE  CASE journal.op = "adopt" -> Intact(journal.muts[i])'
                        [] OTHER -> disk'[journal.muts[i].path]
                                      \in {journal.muts[i].before, journal.muts[i].after}
    BY DEF AcceptedInv, Fine, Intact
  <2>1. CASE i = k
    BY <1>1, <2>1 DEF Intact
  <2>2. CASE i # k
    BY <1>0, <1>1, <2>2 DEF AcceptedInv, Fine, Intact
  <2> QED BY <2>1, <2>2
<1> QED BY <1>1, <1>3, <1>4

\* A step that leaves the records alone.
LEMMA FilesOnly ==
  ASSUME AdoptInv, LockInv, NEW p \in Procs, Inside(p), NEW j, Do(p, j), Stay \/ Leave(p),
         UNCHANGED <<journal, durable, receipts>>,
         IsJob(j), IsSeq(j.done),
         IsFiles(disk'),
         IsFiles(tmp'), IsFiles(bak'),
         AcceptedInv', JobInv(p)'
  PROVE  AdoptInv'
<1>1. ReceiptsInv'
  BY Known DEF ReceiptsInv
<1>2. JournalInv'
  BY Known DEF JournalInv
<1>3. IsJournal(journal') /\ IsSeq(journal'.muts) /\ durable' \in BOOLEAN
  BY Known
<1> QED BY <1>1, <1>2, <1>3, InsideStep

\* What an adoption is at is the last entry of its journal.
LEMMA AtNow ==
  ASSUME AdoptInv, NEW p \in Procs, job[p].op = "adopt",
         job[p].step \in {"stage", "aside", "replace"}
  PROVE  /\ Last(job[p].done) = Now /\ Len(journal.muts) \in DOMAIN journal.muts
         /\ Now = journal.muts[Len(journal.muts)]
         /\ job[p].done = journal.muts /\ journal.op = "adopt" /\ ~durable
         /\ job[p].todo \cap PathsOf(journal.muts) = {}
         /\ job[p].todo \cup PathsOf(journal.muts) = Written(job[p].plan)
         /\ \A i \in DOMAIN journal.muts : Follows(job[p].plan, journal.muts[i])
         /\ job[p].plan = Plan(Settled, job[p].plan.opts)
         /\ \A i \in DOMAIN journal.muts : i # Len(journal.muts) =>
              /\ disk[journal.muts[i].path] = journal.muts[i].after
              /\ bak[journal.muts[i].path] = journal.muts[i].before
         /\ job[p].step \in {"stage", "aside"} => disk[Now.path] = Now.before
         /\ job[p].step \in {"aside", "replace"} => tmp[Now.path] = Now.after
         /\ job[p].step = "replace" => bak[Now.path] = Now.before
<1>1. ApplyInv(p)
  BY Known DEF JobInv
<1>2. /\ job[p].done = journal.muts /\ Len(journal.muts) \in DOMAIN journal.muts
      /\ journal.op = "adopt" /\ ~durable
  BY <1>1 DEF ApplyInv, Applying
<1>3. Last(job[p].done) = Now
  BY <1>2 DEF Last, Now
<1>4. \A i \in DOMAIN journal.muts : i # Len(journal.muts) =>
              /\ disk[journal.muts[i].path] = journal.muts[i].after
              /\ bak[journal.muts[i].path] = journal.muts[i].before
  BY <1>1 DEF ApplyInv, Applying
<1>5. /\ job[p].todo \cap PathsOf(journal.muts) = {}
      /\ job[p].todo \cup PathsOf(journal.muts) = Written(job[p].plan)
      /\ \A i \in DOMAIN journal.muts : Follows(job[p].plan, journal.muts[i])
      /\ job[p].plan = Plan(Settled, job[p].plan.opts)
  BY <1>1 DEF ApplyInv, Applying
<1>6. /\ job[p].step \in {"stage", "aside"} => disk[Now.path] = Now.before
      /\ job[p].step \in {"aside", "replace"} => tmp[Now.path] = Now.after
      /\ job[p].step = "replace" => bak[Now.path] = Now.before
  BY <1>1 DEF ApplyInv, Applying
<1> QED BY <1>2, <1>3, <1>4, <1>5, <1>6 DEF Now

\* A running adoption takes its next step on the last entry.
LEMMA NextAt ==
  ASSUME AdoptInv, NEW p \in Procs, job[p].op = "adopt",
         job[p].step \in {"stage", "aside", "replace"},
         NEW j, job'[p] = j, Inside(p)', IsJob(j), j.op = "adopt", j.plan = job[p].plan,
         j.todo = job[p].todo, j.done = job[p].done,
         UNCHANGED <<journal, durable, receipts, Settled>>,
         \A i \in DOMAIN journal.muts : i # Len(journal.muts) =>
           /\ disk'[journal.muts[i].path] = disk[journal.muts[i].path]
           /\ bak'[journal.muts[i].path] = bak[journal.muts[i].path],
         \/ j.step = "aside" /\ disk'[Now.path] = Now.before /\ tmp'[Now.path] = Now.after
         \/ /\ j.step = "replace" /\ disk'[Now.path] = Absent /\ tmp'[Now.path] = Now.after
            /\ bak'[Now.path] = Now.before
         \/ j.step = "prepare" /\ disk'[Now.path] = Now.after /\ bak'[Now.path] = Now.before
  PROVE  JobInv(p)'
<1>1. StartInv(p)
  BY Known DEF JobInv
<1>2. ApplyInv(p)'
  BY AtNow DEF ApplyInv, Now
<1> QED BY <1>1, <1>2 DEF JobInv, StartInv, UndoInv, CleanInv, RestoreInv, RollbackInv,
      Undoing, Restoring

\* The content is staged.
LEMMA StageStep ==
  ASSUME AdoptInv, LockInv, NEW p \in Procs, Stage(p)
  PROVE  AdoptInv' /\ UNCHANGED <<Settled, receipts>>
<1>0. IsJob(job[p]) /\ IsSeq(job[p].done)
  BY Known
<1>1. /\ job[p].op = "adopt" /\ job[p].step = "stage" /\ Inside(p) /\ Stay
      /\ UNCHANGED <<disk, bak, journal, durable, receipts, touched>>
      /\ tmp' = Put(tmp, Last(job[p].done).path, Last(job[p].done).after)
  BY DEF Stage, Doing, world, records
<1>2. PICK j : Do(p, j) /\ j = [job[p] EXCEPT !.step = "aside"]
  BY DEF Stage
<1>3. /\ IsJob(j) /\ j.op = "adopt" /\ j.step = "aside" /\ j.plan = job[p].plan
      /\ j.todo = job[p].todo /\ j.done = job[p].done
  BY <1>0, <1>1, <1>2 DEF IsJob
<1>4. job'[p] = j /\ Inside(p)'
  BY <1>1, <1>2, Moved DEF AdoptInv, Stay, lockVars, Inside, At
<1>5. IsFiles(tmp') /\ tmp'[Now.path] = Now.after /\ disk[Now.path] = Now.before
  <2>1. /\ Last(job[p].done) = Now /\ Now = journal.muts[Len(journal.muts)]
        /\ Len(journal.muts) \in DOMAIN journal.muts /\ disk[Now.path] = Now.before
    BY <1>1, AtNow
  <2>2. PutsAt(tmp, tmp', journal.muts, Len(journal.muts), Now.after)
    BY <1>1, <2>1, PutAt, Known
  <2> QED BY <2>1, <2>2 DEF PutsAt
<1>6. UNCHANGED Settled
  BY <1>1 DEF Settled
<1>7. JobInv(p)'
  BY <1>1, <1>3, <1>4, <1>5, <1>6, NextAt
<1>8. AcceptedInv'
  BY <1>1, Known DEF AcceptedInv, Fine, Intact
<1>9. AdoptInv'
  BY <1>0, <1>1, <1>2, <1>3, <1>5, <1>7, <1>8, Known, FilesOnly
<1> QED BY <1>1, <1>6, <1>9

\* The target is set aside.
LEMMA SetAsideStep ==
  ASSUME AdoptInv, LockInv, NEW p \in Procs, SetAside(p)
  PROVE  AdoptInv' /\ UNCHANGED <<Settled, receipts>>
<1>0. IsJob(job[p]) /\ IsSeq(job[p].done)
  BY Known
<1>1. /\ job[p].op = "adopt" /\ job[p].step = "aside" /\ Inside(p) /\ Stay
      /\ UNCHANGED <<tmp, journal, durable, receipts, touched>>
      /\ disk' = Put(disk, Last(job[p].done).path, Absent)
      /\ bak' = Put(bak, Last(job[p].done).path, Last(job[p].done).before)
  BY DEF SetAside, Doing, world, records
<1>2. PICK j : Do(p, j) /\ j = [job[p] EXCEPT !.step = "replace"]
  BY DEF SetAside
<1>3. /\ IsJob(j) /\ j.op = "adopt" /\ j.step = "replace" /\ j.plan = job[p].plan
      /\ j.todo = job[p].todo /\ j.done = job[p].done
  BY <1>0, <1>1, <1>2 DEF IsJob
<1>4. job'[p] = j /\ Inside(p)'
  BY <1>1, <1>2, Moved DEF AdoptInv, Stay, lockVars, Inside, At
<1>5. /\ Last(job[p].done) = Now /\ Now = journal.muts[Len(journal.muts)]
      /\ Len(journal.muts) \in DOMAIN journal.muts /\ tmp[Now.path] = Now.after
      /\ ~durable /\ journal.op = "adopt"
  BY <1>1, AtNow
<1>6. /\ IsFiles(bak') /\ bak'[Now.path] = Now.before
      /\ \A i \in DOMAIN journal.muts : i # Len(journal.muts) =>
           bak'[journal.muts[i].path] = bak[journal.muts[i].path]
  <2>1. PutsAt(bak, bak', journal.muts, Len(journal.muts), Now.before)
    BY <1>1, <1>5, PutAt, Known
  <2> QED BY <1>5, <2>1 DEF PutsAt
<1>7. /\ IsFiles(disk') /\ disk'[Now.path] = Absent
      /\ \A i \in DOMAIN journal.muts : i # Len(journal.muts) =>
           disk'[journal.muts[i].path] = disk[journal.muts[i].path]
      /\ AcceptedInv' /\ UNCHANGED Settled
  BY <1>1, <1>5, OneFile
<1>8. JobInv(p)'
  BY <1>1, <1>3, <1>4, <1>5, <1>6, <1>7, NextAt
<1>9. AdoptInv'
  BY <1>0, <1>1, <1>2, <1>3, <1>6, <1>7, <1>8, Known, FilesOnly
<1> QED BY <1>1, <1>7, <1>9

\* The staged file takes its place.
LEMMA ReplaceStep ==
  ASSUME AdoptInv, LockInv, NEW p \in Procs, Replace(p)
  PROVE  AdoptInv' /\ UNCHANGED <<Settled, receipts>>
<1>0. IsJob(job[p]) /\ IsSeq(job[p].done)
  BY Known
<1>1. /\ job[p].op = "adopt" /\ job[p].step = "replace" /\ Inside(p) /\ Stay
      /\ UNCHANGED <<bak, journal, durable, receipts, touched>>
      /\ disk' = Put(disk, Last(job[p].done).path, tmp[Last(job[p].done).path])
      /\ tmp' = Put(tmp, Last(job[p].done).path, Absent)
  BY DEF Replace, Doing, world, records
<1>2. PICK j : Do(p, j) /\ j = [job[p] EXCEPT !.step = "prepare"]
  BY DEF Replace
<1>3. /\ IsJob(j) /\ j.op = "adopt" /\ j.step = "prepare" /\ j.plan = job[p].plan
      /\ j.todo = job[p].todo /\ j.done = job[p].done
  BY <1>0, <1>1, <1>2 DEF IsJob
<1>4. job'[p] = j /\ Inside(p)'
  BY <1>1, <1>2, Moved DEF AdoptInv, Stay, lockVars, Inside, At
<1>5. /\ Last(job[p].done) = Now /\ Now = journal.muts[Len(journal.muts)]
      /\ Len(journal.muts) \in DOMAIN journal.muts /\ tmp[Now.path] = Now.after
      /\ bak[Now.path] = Now.before /\ ~durable /\ journal.op = "adopt"
  BY <1>1, AtNow
<1>6. IsFiles(tmp')
  <2>1. PutsAt(tmp, tmp', journal.muts, Len(journal.muts), Absent)
    BY <1>1, <1>5, PutAt, Known
  <2> QED BY <2>1 DEF PutsAt
<1>7. /\ IsFiles(disk') /\ disk'[Now.path] = Now.after
      /\ \A i \in DOMAIN journal.muts : i # Len(journal.muts) =>
           disk'[journal.muts[i].path] = disk[journal.muts[i].path]
      /\ AcceptedInv' /\ UNCHANGED Settled
  BY <1>1, <1>5, OneFile
<1>8. JobInv(p)'
  BY <1>1, <1>3, <1>4, <1>5, <1>7, NextAt
<1>9. AdoptInv'
  BY <1>0, <1>1, <1>2, <1>3, <1>6, <1>7, <1>8, Known, FilesOnly
<1> QED BY <1>1, <1>7, <1>9

\* A backup or a staged file is removed.
LEMMA RemoveArtifactStep ==
  ASSUME AdoptInv, LockInv, NEW p \in Procs, RemoveArtifact(p)
  PROVE  AdoptInv' /\ UNCHANGED <<Settled, receipts>>
<1>0. IsJob(job[p]) /\ IsSeq(job[p].done) /\ JobInv(p)
  BY Known
<1>1. /\ job[p].op \in {"adopt", "recover"} /\ job[p].step = "cleanup" /\ Inside(p) /\ Stay
      /\ UNCHANGED <<disk, journal, durable, receipts, touched, job>>
  BY DEF RemoveArtifact, Doing, world, records
<1>2. PICK f \in Files : bak' = Put(bak, f, Absent) /\ tmp' = Put(tmp, f, Absent)
  BY DEF RemoveArtifact, Artifacts
<1>3. IsFiles(bak') /\ IsFiles(tmp')
  BY <1>2, PutFile, Known
<1>4. Do(p, job[p])
  <2>1. job = [q \in Procs |-> job[q]]
    BY DEF AdoptInv, ShapeInv
  <2> QED BY <1>1, <2>1 DEF Do
<1>5. Inside(p)'
  BY <1>1 DEF Stay, lockVars, Inside, At
<1>6. CleanInv(p)'
  BY <1>0, <1>1 DEF JobInv, CleanInv
<1>7. JobInv(p)'
  BY <1>0, <1>1, <1>5, <1>6 DEF JobInv, StartInv, ApplyInv, UndoInv, RestoreInv, RollbackInv,
    Applying, Undoing, Restoring
<1>8. AcceptedInv'
  BY <1>1, Known DEF AcceptedInv, Fine, Intact
<1>9. IsFiles(disk')
  BY <1>1, Known
<1>10. AdoptInv'
  BY <1>0, <1>1, <1>3, <1>4, <1>7, <1>8, <1>9, FilesOnly
<1> QED BY <1>1, <1>10 DEF Settled

\* A failed adoption takes back what it did to the last file.
LEMMA ApplyFailsStep ==
  ASSUME AdoptInv, LockInv, NEW p \in Procs, ApplyFails(p)
  PROVE  AdoptInv' /\ UNCHANGED <<Settled, receipts>>
<1> DEFINE ms == journal.muts
           n == Len(journal.muts)
<1>0. /\ IsJob(job[p]) /\ IsSeq(job[p].done) /\ StartInv(p) /\ ApplyInv(p)
      /\ IsFiles(disk) /\ IsFiles(tmp) /\ IsFiles(bak) /\ Distinct(ms)
      /\ n \in Nat /\ DOMAIN ms = 1..n
  BY Known DEF JobInv
<1>1. /\ job[p].op = "adopt" /\ job[p].step \in {"prepare", "stage", "aside", "replace"}
      /\ Inside(p) /\ Stay /\ UNCHANGED <<journal, durable, receipts, touched>>
  BY DEF ApplyFails, Doing, world, records
<1>2. job[p].done = ms /\ journal.op = "adopt" /\ ~durable
  BY <1>0, <1>1 DEF ApplyInv, Applying
<1>3. CASE job[p].step = "prepare"
  <2>1. UNCHANGED <<disk, tmp, bak>>
    BY <1>3 DEF ApplyFails
  <2>2. PICK j : Do(p, j) /\ j = [job[p] EXCEPT !.step = "undo"]
    <3>1. [job[p] EXCEPT !.step = "undo"] = [job[p] EXCEPT !.step = "undo", !.done = job[p].done]
      BY <1>0 DEF IsJob
    <3> QED BY <1>3, <3>1 DEF ApplyFails
  <2>3. IsJob(j) /\ j.op = "adopt" /\ j.step = "undo" /\ j.done = ms /\ j.plan = job[p].plan
    BY <1>0, <1>1, <1>2, <2>2 DEF IsJob
  <2>4. job'[p] = j /\ Inside(p)'
    BY <1>1, <2>2, Moved DEF AdoptInv, Stay, lockVars, Inside, At
  <2>5. \A i \in DOMAIN ms : bak[ms[i].path] = ms[i].before
    BY <1>0, <1>1, <1>3 DEF ApplyInv, Applying
  <2>6. UndoInv(p)'
    BY <1>1, <1>2, <2>1, <2>3, <2>4, <2>5 DEF UndoInv
  <2>7. JobInv(p)'
    BY <1>0, <1>1, <2>3, <2>4, <2>6 DEF JobInv, StartInv, ApplyInv, CleanInv, RestoreInv,
      RollbackInv, Applying, Restoring
  <2>8. AcceptedInv'
    BY <1>1, <2>1, Known DEF AcceptedInv, Fine, Intact
  <2>9. AdoptInv'
    BY <1>0, <1>1, <1>2, <2>1, <2>2, <2>3, <2>7, <2>8, FilesOnly
  <2> QED BY <1>1, <2>1, <2>9 DEF Settled
<1>4. CASE job[p].step \in {"stage", "aside", "replace"}
  <2>1. /\ Last(job[p].done) = Now /\ n \in DOMAIN ms /\ Now = ms[n]
        /\ \A i \in DOMAIN ms : i # n => bak[ms[i].path] = ms[i].before
        /\ job[p].step \in {"stage", "aside"} => disk[Now.path] = Now.before
        /\ job[p].step = "replace" => bak[Now.path] = Now.before
    BY <1>1, <1>4, AtNow
  <2>2. job[p].done # <<>>
    BY <1>2, <2>1, SeqEmpty
  <2>3. /\ IsSeq(Front(ms)) /\ DOMAIN Front(ms) = 1..(n - 1)
        /\ \A i \in DOMAIN Front(ms) : Front(ms)[i] = ms[i]
    BY <1>0, <1>2, <2>2, SeqFront
  <2>4. PICK j : Do(p, j) /\ j = [job[p] EXCEPT !.step = "undo", !.done = Front(@)]
    BY <1>4 DEF ApplyFails
  <2>5. IsJob(j) /\ j.op = "adopt" /\ j.step = "undo" /\ j.done = Front(ms) /\ j.plan = job[p].plan
    BY <1>0, <1>1, <1>2, <2>4 DEF IsJob
  <2>6. job'[p] = j /\ Inside(p)'
    BY <1>1, <2>4, Moved DEF AdoptInv, Stay, lockVars, Inside, At
  <2>7. IsFiles(tmp')
    <3>1. tmp' = Put(tmp, ms[n].path, Absent)
      BY <1>4, <2>1, <2>2 DEF ApplyFails
    <3>2. PutsAt(tmp, tmp', ms, n, Absent)
      BY <1>0, <2>1, <3>1, PutAt
    <3> QED BY <3>2 DEF PutsAt
  <2>8. /\ IsFiles(disk') /\ IsFiles(bak') /\ AcceptedInv' /\ UNCHANGED Settled
        /\ disk'[ms[n].path] = ms[n].before
        /\ \A i \in DOMAIN ms : i # n => bak'[ms[i].path] = bak[ms[i].path]
    <3>1. CASE job[p].step = "replace"
      <4>1. /\ disk' = Put(disk, ms[n].path, bak[ms[n].path])
            /\ bak' = Put(bak, ms[n].path, Absent)
        BY <2>1, <2>2, <3>1 DEF ApplyFails
      <4>2. PutsAt(bak, bak', ms, n, Absent)
        BY <1>0, <2>1, <4>1, PutAt
      <4>3. disk' = Put(disk, ms[n].path, ms[n].before)
        BY <2>1, <3>1, <4>1
      <4>4. /\ IsFiles(disk') /\ AcceptedInv' /\ UNCHANGED Settled
            /\ disk'[ms[n].path] = ms[n].before
        BY <1>1, <1>2, <2>1, <4>3, OneFile
      <4> QED BY <4>2, <4>4 DEF PutsAt
    <3>2. CASE job[p].step # "replace"
      <4>1. UNCHANGED <<disk, bak>>
        BY <3>2 DEF ApplyFails
      <4>2. AcceptedInv'
        BY <1>1, <4>1, Known DEF AcceptedInv, Fine, Intact
      <4>3. UNCHANGED Settled
        BY <1>1, <4>1 DEF Settled
      <4> QED BY <1>0, <1>1, <1>4, <2>1, <3>2, <4>1, <4>2, <4>3
    <3> QED BY <3>1, <3>2
  <2>9. \A i \in DOMAIN ms : i \in DOMAIN Front(ms) <=> i # n
    BY <1>0, <2>3
  <2>10. DOMAIN Front(ms) \subseteq DOMAIN ms
    BY <1>0, <2>3
  <2>11. UndoInv(p)'
    <3>1. \A i \in DOMAIN j.done : j.done[i] = ms[i] /\ bak'[ms[i].path] = ms[i].before
      BY <2>1, <2>3, <2>5, <2>8, <2>9, <2>10
    <3>2. \A i \in DOMAIN ms : i \notin DOMAIN j.done => disk'[ms[i].path] = ms[i].before
      BY <2>5, <2>8, <2>9
    <3> QED BY <1>1, <1>2, <2>5, <2>6, <2>10, <3>1, <3>2 DEF UndoInv
  <2>12. JobInv(p)'
    BY <1>0, <1>1, <2>5, <2>6, <2>11 DEF JobInv, StartInv, ApplyInv, CleanInv, RestoreInv,
      RollbackInv, Applying, Restoring
  <2>13. AdoptInv'
    BY <1>1, <2>3, <2>4, <2>5, <2>7, <2>8, <2>12, FilesOnly
  <2> QED BY <1>1, <2>8, <2>13
<1> QED BY <1>1, <1>3, <1>4

\* The new file goes ...
LEMMA UndoRemoveStep ==
  ASSUME AdoptInv, LockInv, NEW p \in Procs, UndoRemove(p)
  PROVE  AdoptInv' /\ UNCHANGED <<Settled, receipts>>
<1> DEFINE ms == journal.muts
           n == Len(job[p].done)
<1>0. /\ IsJob(job[p]) /\ IsSeq(job[p].done) /\ StartInv(p) /\ UndoInv(p)
      /\ IsFiles(tmp) /\ IsFiles(bak)
  BY Known DEF JobInv
<1>1. /\ job[p].op = "adopt" /\ job[p].step = "undo" /\ job[p].done # <<>>
      /\ Inside(p) /\ Stay /\ UNCHANGED <<tmp, bak, journal, durable, receipts, touched>>
      /\ disk' = Put(disk, Last(job[p].done).path, Absent)
  BY DEF UndoRemove, Doing, world, records
<1>2. /\ journal.op = "adopt" /\ ~durable /\ DOMAIN job[p].done \subseteq DOMAIN ms
      /\ \A i \in DOMAIN job[p].done : job[p].done[i] = ms[i] /\ bak[ms[i].path] = ms[i].before
      /\ \A i \in DOMAIN ms : i \notin DOMAIN job[p].done => disk[ms[i].path] = ms[i].before
  BY <1>0, <1>1 DEF UndoInv, Undoing
<1>3. n \in DOMAIN job[p].done /\ n \in DOMAIN ms /\ Last(job[p].done) = ms[n]
  BY <1>0, <1>1, <1>2, SeqShape DEF Last
<1>4. PICK j : Do(p, j) /\ j = [job[p] EXCEPT !.step = "putback"]
  BY DEF UndoRemove
<1>5. /\ IsJob(j) /\ j.op = "adopt" /\ j.step = "putback" /\ j.done = job[p].done
      /\ j.plan = job[p].plan
  BY <1>0, <1>1, <1>4 DEF IsJob
<1>6. job'[p] = j /\ Inside(p)'
  BY <1>1, <1>4, Moved DEF AdoptInv, Stay, lockVars, Inside, At
<1>7. /\ IsFiles(disk') /\ AcceptedInv' /\ UNCHANGED Settled
      /\ \A i \in DOMAIN ms : i # n => disk'[ms[i].path] = disk[ms[i].path]
  BY <1>1, <1>2, <1>3, OneFile
<1>8. UndoInv(p)'
  BY <1>1, <1>2, <1>3, <1>5, <1>6, <1>7 DEF UndoInv
<1>9. JobInv(p)'
  BY <1>0, <1>1, <1>5, <1>6, <1>8 DEF JobInv, StartInv, ApplyInv, CleanInv, RestoreInv,
    RollbackInv, Applying, Restoring
<1>10. AdoptInv'
  BY <1>0, <1>1, <1>4, <1>5, <1>7, <1>9, FilesOnly
<1> QED BY <1>1, <1>7, <1>10

\* ... and the old one comes back.
LEMMA UndoPutBackStep ==
  ASSUME AdoptInv, LockInv, NEW p \in Procs, UndoPutBack(p)
  PROVE  AdoptInv' /\ UNCHANGED <<Settled, receipts>>
<1> DEFINE ms == journal.muts
           n == Len(job[p].done)
<1>0. /\ IsJob(job[p]) /\ IsSeq(job[p].done) /\ StartInv(p) /\ UndoInv(p)
      /\ IsFiles(tmp) /\ IsFiles(bak) /\ Distinct(ms)
  BY Known DEF JobInv
<1>1. /\ job[p].op = "adopt" /\ job[p].step = "putback"
      /\ Inside(p) /\ Stay /\ UNCHANGED <<tmp, journal, durable, receipts, touched>>
      /\ disk' = Put(disk, Last(job[p].done).path, bak[Last(job[p].done).path])
      /\ bak' = Put(bak, Last(job[p].done).path, Absent)
  BY DEF UndoPutBack, Doing, world, records
<1>2. /\ journal.op = "adopt" /\ ~durable /\ DOMAIN job[p].done \subseteq DOMAIN ms
      /\ \A i \in DOMAIN job[p].done : job[p].done[i] = ms[i] /\ bak[ms[i].path] = ms[i].before
      /\ \A i \in DOMAIN ms : i \notin DOMAIN job[p].done => disk[ms[i].path] = ms[i].before
      /\ job[p].done # <<>>
  BY <1>0, <1>1 DEF UndoInv, Undoing
<1>3. /\ n \in DOMAIN job[p].done /\ n \in DOMAIN ms /\ Last(job[p].done) = ms[n]
      /\ n \in Nat /\ DOMAIN job[p].done = 1..n
  BY <1>0, <1>2, SeqShape DEF Last
<1>4. PICK j : Do(p, j) /\ j = [job[p] EXCEPT !.step = "undo", !.done = Front(@)]
  BY DEF UndoPutBack
<1>5. /\ IsJob(j) /\ j.op = "adopt" /\ j.step = "undo" /\ j.done = Front(job[p].done)
      /\ j.plan = job[p].plan
  BY <1>0, <1>1, <1>4 DEF IsJob
<1>6. job'[p] = j /\ Inside(p)'
  BY <1>1, <1>4, Moved DEF AdoptInv, Stay, lockVars, Inside, At
<1>7. /\ IsSeq(j.done) /\ DOMAIN j.done = 1..(n - 1)
      /\ \A i \in DOMAIN j.done : j.done[i] = job[p].done[i]
  BY <1>0, <1>2, <1>5, SeqFront
<1>8. \A i \in DOMAIN job[p].done : i \in DOMAIN j.done <=> i # n
  BY <1>3, <1>7
<1>9. DOMAIN j.done \subseteq DOMAIN job[p].done
  BY <1>3, <1>7
<1>10. disk' = Put(disk, ms[n].path, ms[n].before)
  BY <1>1, <1>2, <1>3
<1>11. /\ IsFiles(disk') /\ AcceptedInv' /\ UNCHANGED Settled
       /\ disk'[ms[n].path] = ms[n].before
       /\ \A i \in DOMAIN ms : i # n => disk'[ms[i].path] = disk[ms[i].path]
  <2>1. UNCHANGED <<journal, durable, receipts, touched>> /\ ~durable
    BY <1>1, <1>2
  <2> QED BY <1>3, <1>10, <2>1, OneFile
<1>12. IsFiles(bak') /\ \A i \in DOMAIN ms : i # n => bak'[ms[i].path] = bak[ms[i].path]
  <2>1. PutsAt(bak, bak', ms, n, Absent)
    BY <1>0, <1>1, <1>3, PutAt
  <2> QED BY <2>1 DEF PutsAt
<1>13. UndoInv(p)'
  <2>1. \A i \in DOMAIN j.done : j.done[i] = ms[i] /\ bak'[ms[i].path] = ms[i].before
    BY <1>2, <1>7, <1>8, <1>9, <1>12
  <2>2. \A i \in DOMAIN ms : i \notin DOMAIN j.done => disk'[ms[i].path] = ms[i].before
    BY <1>2, <1>8, <1>11
  <2> QED BY <1>1, <1>2, <1>5, <1>6, <1>9, <2>1, <2>2 DEF UndoInv
<1>14. JobInv(p)'
  BY <1>0, <1>1, <1>5, <1>6, <1>13 DEF JobInv, StartInv, ApplyInv, CleanInv, RestoreInv,
    RollbackInv, Applying, Restoring
<1>15. AdoptInv'
  BY <1>0, <1>1, <1>4, <1>5, <1>7, <1>11, <1>12, <1>14, FilesOnly
<1> QED BY <1>1, <1>11, <1>15

\* What a recovery knows while it restores.
LEMMA AtRestore ==
  ASSUME AdoptInv, NEW p \in Procs, job[p].op = "recover",
         job[p].step \in {"restore", "place", "unrestore"}
  PROVE  /\ journal.op = "adopt" /\ ~durable /\ job[p].todo \subseteq DOMAIN journal.muts
         /\ \A i \in DOMAIN journal.muts : Intact(journal.muts[i])
         /\ TakenFrom(journal.muts, job[p].done)
         /\ job[p].step = "place" => job[p].done # <<>>
         /\ job[p].step # "unrestore" =>
              \A i \in DOMAIN journal.muts \ job[p].todo :
                \/ disk[journal.muts[i].path] = journal.muts[i].before
                \/ job[p].step = "place" /\ journal.muts[i].path = Last(job[p].done).path
<1>1. RestoreInv(p)
  BY Known DEF JobInv
<1> QED BY <1>1 DEF RestoreInv, Restoring

\* A file is taken aside.
LEMMA RestoreAsideStep ==
  ASSUME AdoptInv, LockInv, NEW p \in Procs, RestoreAside(p)
  PROVE  AdoptInv' /\ UNCHANGED <<Settled, receipts>>
<1> DEFINE ms == journal.muts
           d == job[p].done
<1>0. /\ IsJob(job[p]) /\ IsSeq(d) /\ IsFiles(tmp) /\ IsFiles(bak) /\ Distinct(ms)
  BY Known
<1>1. /\ job[p].op = "recover" /\ job[p].step = "restore" /\ Inside(p) /\ Stay
      /\ UNCHANGED <<tmp, bak, journal, durable, receipts, touched>>
  BY DEF RestoreAside, Doing, world, records
<1>2. /\ journal.op = "adopt" /\ ~durable /\ job[p].todo \subseteq DOMAIN ms
      /\ \A i \in DOMAIN ms : Intact(ms[i])
      /\ \A i \in DOMAIN ms \ job[p].todo : disk[ms[i].path] = ms[i].before
  BY <1>1, AtRestore
<1>3. \A k \in DOMAIN d : \E i \in DOMAIN ms :
         /\ d[k].path = ms[i].path /\ d[k].after = ms[i].before
         /\ d[k].before \in {ms[i].before, ms[i].after, Absent}
  BY <1>1, AtRestore DEF TakenFrom
<1>p. PICK i \in job[p].todo : \E e, j :
        /\ e = Mutation(ms[i].path, disk[ms[i].path], ms[i].before)
        /\ disk' = Put(disk, ms[i].path, Absent) /\ Do(p, j)
        /\ j = [job[p] EXCEPT !.step = "place", !.todo = @ \ {i}, !.done = Append(@, e)]
  BY DEF RestoreAside
<1>4. PICK e, j :
        /\ e = Mutation(ms[i].path, disk[ms[i].path], ms[i].before)
        /\ disk' = Put(disk, ms[i].path, Absent) /\ Do(p, j)
        /\ j = [job[p] EXCEPT !.step = "place", !.todo = @ \ {i}, !.done = Append(@, e)]
  BY <1>p
<1>5. /\ IsJob(j) /\ j.op = "recover" /\ j.step = "place" /\ j.done = Append(d, e)
      /\ j.todo = job[p].todo \ {i}
  BY <1>0, <1>1, <1>4 DEF IsJob
<1>6. job'[p] = j /\ Inside(p)'
  BY <1>1, <1>4, Moved DEF AdoptInv, Stay, lockVars, Inside, At
<1>7. e.path = ms[i].path /\ e.before = disk[ms[i].path] /\ e.after = ms[i].before
  BY <1>4 DEF Mutation
<1>8. /\ IsSeq(j.done) /\ DOMAIN j.done = 1..(Len(d) + 1) /\ j.done[Len(d) + 1] = e
      /\ \A k \in DOMAIN d : j.done[k] = d[k]
      /\ Len(j.done) = Len(d) + 1 /\ Len(d) \in Nat /\ DOMAIN d = 1..Len(d)
  BY <1>0, <1>5, SeqAppend, SeqShape
<1>9. Last(j.done) = e /\ j.done # <<>>
  <2>1. Last(j.done) = e
    BY <1>8 DEF Last
  <2> QED BY <1>8, <2>1, SeqEmpty
<1>10. \A k \in DOMAIN j.done : k \in DOMAIN d \/ k = Len(d) + 1
  BY <1>8
<1>11. i \in DOMAIN ms
  BY <1>2
<1>12. /\ IsFiles(disk') /\ AcceptedInv' /\ UNCHANGED Settled
       /\ disk'[ms[i].path] = Absent
       /\ \A k \in DOMAIN ms : k # i => disk'[ms[k].path] = disk[ms[k].path]
  BY <1>1, <1>2, <1>4, <1>11, OneFile
<1>13. RestoreInv(p)'
  <2>1. \A k \in DOMAIN ms : Intact(ms[k])'
    BY <1>1, <1>2, <1>12 DEF Intact
  <2>2. ASSUME NEW k \in DOMAIN j.done
        PROVE  \E l \in DOMAIN ms :
                 /\ j.done[k].path = ms[l].path /\ j.done[k].after = ms[l].before
                 /\ j.done[k].before \in {ms[l].before, ms[l].after, Absent}
    <3>1. CASE k \in DOMAIN d
      BY <1>3, <1>8, <3>1
    <3>2. CASE k = Len(d) + 1
      BY <1>2, <1>7, <1>8, <1>11, <3>2 DEF Intact
    <3> QED BY <1>10, <3>1, <3>2
  <2>3. \A k \in DOMAIN ms \ j.todo :
          disk'[ms[k].path] = ms[k].before \/ ms[k].path = Last(j.done).path
    BY <1>2, <1>5, <1>7, <1>9, <1>12
  <2>4. j.todo \subseteq DOMAIN ms
    BY <1>2, <1>5
  <2>5. journal' = journal /\ durable' = durable /\ journal.op = "adopt" /\ ~durable
    BY <1>1, <1>2
  <2>6. TakenFrom(ms, j.done)
    BY <2>2 DEF TakenFrom
  <2> HIDE DEF d
  <2> QED BY <1>5, <1>6, <1>9, <2>1, <2>3, <2>4, <2>5, <2>6 DEF RestoreInv, Intact
<1>14. JobInv(p)'
  BY <1>5, <1>6, <1>13 DEF JobInv, StartInv, ApplyInv, UndoInv, CleanInv, RollbackInv,
    Applying, Undoing
<1>15. AdoptInv'
  BY <1>0, <1>1, <1>4, <1>5, <1>8, <1>12, <1>14, FilesOnly
<1> QED BY <1>1, <1>12, <1>15

\* The old content takes its place.
LEMMA RestorePlaceStep ==
  ASSUME AdoptInv, LockInv, NEW p \in Procs, RestorePlace(p)
  PROVE  AdoptInv' /\ UNCHANGED <<Settled, receipts>>
<1> DEFINE ms == journal.muts
           d == job[p].done
<1>0. /\ IsJob(job[p]) /\ IsSeq(d) /\ IsFiles(tmp) /\ IsFiles(bak) /\ Distinct(ms)
  BY Known
<1>1. /\ job[p].op = "recover" /\ job[p].step = "place" /\ Inside(p) /\ Stay
      /\ UNCHANGED <<tmp, bak, journal, durable, receipts, touched>>
      /\ disk' = Put(disk, Last(d).path, Last(d).after)
  BY DEF RestorePlace, Doing, world, records
<1>2. /\ journal.op = "adopt" /\ ~durable /\ job[p].todo \subseteq DOMAIN ms
      /\ \A i \in DOMAIN ms : Intact(ms[i])
      /\ \A i \in DOMAIN ms \ job[p].todo :
           disk[ms[i].path] = ms[i].before \/ ms[i].path = Last(d).path
      /\ d # <<>>
  BY <1>1, AtRestore
<1>3. \A k \in DOMAIN d : \E i \in DOMAIN ms :
         /\ d[k].path = ms[i].path /\ d[k].after = ms[i].before
         /\ d[k].before \in {ms[i].before, ms[i].after, Absent}
  BY <1>1, AtRestore DEF TakenFrom
<1>4. PICK i \in DOMAIN ms : Last(d).path = ms[i].path /\ Last(d).after = ms[i].before
  BY <1>0, <1>2, <1>3, SeqShape DEF Last
<1>5. PICK j : Do(p, j) /\ j = [job[p] EXCEPT !.step = "restore"]
  BY DEF RestorePlace
<1>6. /\ IsJob(j) /\ j.op = "recover" /\ j.step = "restore" /\ j.done = d
      /\ j.todo = job[p].todo
  BY <1>0, <1>1, <1>5 DEF IsJob
<1>7. job'[p] = j /\ Inside(p)'
  BY <1>1, <1>5, Moved DEF AdoptInv, Stay, lockVars, Inside, At
<1>8. /\ IsFiles(disk') /\ AcceptedInv' /\ UNCHANGED Settled
      /\ disk'[ms[i].path] = ms[i].before
      /\ \A k \in DOMAIN ms : k # i => disk'[ms[k].path] = disk[ms[k].path]
  <2>1. UNCHANGED <<journal, durable, receipts, touched>> /\ ~durable
    BY <1>1, <1>2
  <2>2. disk' = Put(disk, ms[i].path, ms[i].before)
    BY <1>1, <1>4
  <2> QED BY <2>1, <2>2, OneFile
<1>9. RestoreInv(p)'
  <2>1. \A k \in DOMAIN ms : Intact(ms[k])'
    BY <1>1, <1>2, <1>8 DEF Intact
  <2>2. \A k \in DOMAIN ms \ j.todo : disk'[ms[k].path] = ms[k].before
    <3> SUFFICES ASSUME NEW k \in DOMAIN ms \ j.todo PROVE disk'[ms[k].path] = ms[k].before
      OBVIOUS
    <3>1. CASE k = i
      BY <1>8, <3>1
    <3>2. CASE k # i
      <4>1. ms[k].path # ms[i].path
        BY <1>0, <3>2 DEF Distinct
      <4> QED BY <1>2, <1>4, <1>6, <1>8, <3>2, <4>1
    <3> QED BY <3>1, <3>2
  <2>3. journal' = journal /\ durable' = durable /\ journal.op = "adopt" /\ ~durable
    BY <1>1, <1>2
  <2>4. j.todo \subseteq DOMAIN ms
    BY <1>2, <1>6
  <2>5. \A k \in DOMAIN j.done : \E l \in DOMAIN ms :
         /\ j.done[k].path = ms[l].path /\ j.done[k].after = ms[l].before
         /\ j.done[k].before \in {ms[l].before, ms[l].after, Absent}
    BY <1>3, <1>6
  <2>6. TakenFrom(ms, j.done)
    BY <2>5 DEF TakenFrom
  <2> HIDE DEF d
  <2> QED BY <1>6, <1>7, <2>1, <2>2, <2>3, <2>4, <2>6 DEF RestoreInv, Intact
<1>10. JobInv(p)'
  BY <1>6, <1>7, <1>9 DEF JobInv, StartInv, ApplyInv, UndoInv, CleanInv, RollbackInv,
    Applying, Undoing
<1>11. AdoptInv'
  BY <1>0, <1>1, <1>5, <1>6, <1>8, <1>10, FilesOnly
<1> QED BY <1>1, <1>8, <1>11

\* A restoration that failed takes a step back.
LEMMA UnrestoreStep ==
  ASSUME AdoptInv, LockInv, NEW p \in Procs, Unrestore(p)
  PROVE  AdoptInv' /\ UNCHANGED <<Settled, receipts>>
<1> DEFINE ms == journal.muts
           d == job[p].done
<1>0. /\ IsJob(job[p]) /\ IsSeq(d) /\ IsFiles(tmp) /\ IsFiles(bak) /\ Distinct(ms)
  BY Known
<1>1. /\ job[p].op = "recover" /\ job[p].step = "unrestore" /\ Inside(p)
      /\ UNCHANGED <<tmp, bak, journal, durable, receipts, touched>>
  BY DEF Unrestore, Doing, world, records
<1>2. /\ journal.op = "adopt" /\ ~durable /\ job[p].todo \subseteq DOMAIN ms
      /\ \A i \in DOMAIN ms : Intact(ms[i])
      /\ \A k \in DOMAIN d : \E i \in DOMAIN ms :
           /\ d[k].path = ms[i].path /\ d[k].after = ms[i].before
           /\ d[k].before \in {ms[i].before, ms[i].after, Absent}
  BY <1>1, AtRestore DEF TakenFrom
<1>3. CASE d = <<>>
  <2>1. Exit(p) /\ UNCHANGED disk
    BY <1>3 DEF Unrestore
  <2> QED BY <1>1, <2>1, Moved, Rests, QuietStep DEF AdoptInv, Exit, files, records
<1>4. CASE d # <<>>
  <2>1. disk' = Put(disk, Last(d).path, Last(d).before) /\ Stay
    BY <1>4 DEF Unrestore
  <2>2. PICK j : Do(p, j) /\ j = [job[p] EXCEPT !.done = Front(@)]
    BY <1>4 DEF Unrestore
  <2>3. /\ IsJob(j) /\ j.op = "recover" /\ j.step = "unrestore" /\ j.done = Front(d)
        /\ j.todo = job[p].todo
    BY <1>0, <1>1, <2>2 DEF IsJob
  <2>4. job'[p] = j /\ Inside(p)'
    BY <1>1, <2>1, <2>2, Moved DEF AdoptInv, Stay, lockVars, Inside, At
  <2>5. /\ IsSeq(j.done) /\ DOMAIN j.done \subseteq DOMAIN d
        /\ \A k \in DOMAIN j.done : j.done[k] = d[k]
    BY <1>0, <1>4, <2>3, SeqFront, SeqShape
  <2>6. PICK i \in DOMAIN ms : /\ Last(d).path = ms[i].path
                               /\ Last(d).before \in {ms[i].before, ms[i].after, Absent}
    BY <1>0, <1>2, <1>4, SeqShape DEF Last
  <2>7. /\ IsFiles(disk') /\ AcceptedInv' /\ UNCHANGED Settled
        /\ disk'[ms[i].path] \in {ms[i].before, ms[i].after, Absent}
        /\ \A k \in DOMAIN ms : k # i => disk'[ms[k].path] = disk[ms[k].path]
    <3>1. UNCHANGED <<journal, durable, receipts, touched>> /\ ~durable /\ journal.op = "adopt"
      BY <1>1, <1>2
    <3>2. disk' = Put(disk, ms[i].path, Last(d).before)
      BY <2>1, <2>6
    <3> HIDE DEF d
    <3>3. /\ IsFiles(disk') /\ AcceptedInv' /\ UNCHANGED Settled
          /\ disk'[ms[i].path] = Last(d).before
          /\ \A k \in DOMAIN ms : k # i => disk'[ms[k].path] = disk[ms[k].path]
      BY <2>6, <3>1, <3>2, OneFile
    <3> QED BY <2>6, <3>3
  <2>8. RestoreInv(p)'
    <3>1. \A k \in DOMAIN ms : Intact(ms[k])'
      BY <1>1, <1>2, <2>7 DEF Intact
    <3>2. \A k \in DOMAIN j.done : \E l \in DOMAIN ms :
            /\ j.done[k].path = ms[l].path /\ j.done[k].after = ms[l].before
            /\ j.done[k].before \in {ms[l].before, ms[l].after, Absent}
      BY <1>2, <2>5
    <3>3. j.todo \subseteq DOMAIN ms
      BY <1>2, <2>3
    <3>4. journal' = journal /\ durable' = durable /\ journal.op = "adopt" /\ ~durable
      BY <1>1, <1>2
    <3>5. TakenFrom(ms, j.done)
      BY <3>2 DEF TakenFrom
    <3> HIDE DEF d
    <3> QED BY <2>3, <2>4, <3>1, <3>3, <3>4, <3>5 DEF RestoreInv, Intact
  <2>9. JobInv(p)'
    BY <2>3, <2>4, <2>8 DEF JobInv, StartInv, ApplyInv, UndoInv, CleanInv, RollbackInv,
      Applying, Undoing
  <2>10. AdoptInv'
    BY <1>0, <1>1, <2>1, <2>2, <2>3, <2>5, <2>7, <2>9, FilesOnly
  <2> QED BY <1>1, <2>7, <2>10
<1> QED BY <1>3, <1>4

\* A rollback puts the old content of a file back, or stops at a drifted one.
LEMMA RollBackFileStep ==
  ASSUME AdoptInv, LockInv, NEW p \in Procs, RollBackFile(p)
  PROVE  AdoptInv' /\ UNCHANGED <<Settled, receipts>>
<1> DEFINE ms == journal.muts
<1>0. /\ IsJob(job[p]) /\ IsSeq(job[p].done) /\ IsFiles(tmp) /\ IsFiles(bak)
      /\ StartInv(p) /\ RollbackInv(p) /\ JournalInv
  BY Known DEF JobInv
<1>1. /\ job[p].op = "rollback" /\ job[p].step = "back" /\ Inside(p)
      /\ UNCHANGED <<tmp, bak, journal, durable, receipts, touched>>
  BY DEF RollBackFile, Doing, world, records
<1>2. /\ journal.op = "rollback" /\ ~durable /\ job[p].todo \subseteq DOMAIN ms
      /\ \A i \in DOMAIN ms \ job[p].todo : disk[ms[i].path] = ms[i].before
  BY <1>0, <1>1 DEF RollbackInv, JournalInv
<1>3. CASE Exit(p) /\ UNCHANGED disk
  BY <1>1, <1>3, Moved, Rests, QuietStep DEF AdoptInv, Exit, files, records
<1>4. CASE ~(Exit(p) /\ UNCHANGED disk)
  <2>p. PICK i \in job[p].todo : \E j :
          /\ disk' = Put(disk, ms[i].path, ms[i].before) /\ Do(p, j) /\ Stay
          /\ j = [job[p] EXCEPT !.todo = @ \ {i}]
    BY <1>4 DEF RollBackFile
  <2>1. PICK j :
          /\ disk' = Put(disk, ms[i].path, ms[i].before) /\ Do(p, j) /\ Stay
          /\ j = [job[p] EXCEPT !.todo = @ \ {i}]
    BY <2>p
  <2>2. /\ IsJob(j) /\ j.op = "rollback" /\ j.step = "back" /\ j.done = job[p].done
        /\ j.todo = job[p].todo \ {i} /\ j.id = job[p].id
    BY <1>0, <1>1, <2>1 DEF IsJob
  <2>3. job'[p] = j /\ Inside(p)'
    BY <1>1, <2>1, Moved DEF AdoptInv, Stay, lockVars, Inside, At
  <2>4. i \in DOMAIN ms
    BY <1>2
  <2>5. /\ IsFiles(disk') /\ AcceptedInv' /\ UNCHANGED Settled
        /\ disk'[ms[i].path] = ms[i].before
        /\ \A k \in DOMAIN ms : k # i => disk'[ms[k].path] = disk[ms[k].path]
    BY <1>1, <1>2, <2>1, <2>4, OneFile
  <2>6. RollbackInv(p)'
    BY <1>1, <1>2, <2>2, <2>3, <2>5 DEF RollbackInv
  <2>7. JobInv(p)'
    BY <1>0, <1>1, <2>2, <2>3, <2>6 DEF JobInv, StartInv, ApplyInv, UndoInv, CleanInv, RestoreInv,
      Applying, Undoing, Restoring
  <2>8. AdoptInv'
    BY <1>0, <1>1, <2>1, <2>2, <2>5, <2>7, FilesOnly
  <2> QED BY <1>1, <2>5, <2>8
<1> QED BY <1>3, <1>4

\* A failed rollback installs a file again.
LEMMA ReinstallStep ==
  ASSUME AdoptInv, LockInv, NEW p \in Procs, Reinstall(p)
  PROVE  AdoptInv' /\ UNCHANGED <<Settled, receipts>>
<1> DEFINE ms == journal.muts
<1>0. /\ IsJob(job[p]) /\ IsSeq(job[p].done) /\ IsFiles(tmp) /\ IsFiles(bak)
      /\ StartInv(p) /\ RollbackInv(p) /\ JournalInv
  BY Known DEF JobInv
<1>1. /\ job[p].op = "rollback" /\ job[p].step = "reinstall" /\ Inside(p) /\ Stay
      /\ UNCHANGED <<tmp, bak, journal, durable, receipts, touched>>
  BY DEF Reinstall, Doing, world, records
<1>2. /\ journal.op = "rollback" /\ ~durable /\ job[p].todo \subseteq DOMAIN ms
      /\ \A i \in DOMAIN ms \ job[p].todo : disk[ms[i].path] = ms[i].after
  BY <1>0, <1>1 DEF RollbackInv, JournalInv
<1>p. PICK i \in job[p].todo : \E j :
        /\ disk' = Put(disk, ms[i].path, ms[i].after) /\ Do(p, j)
        /\ j = [job[p] EXCEPT !.todo = @ \ {i}]
  BY DEF Reinstall
<1>3. PICK j :
        /\ disk' = Put(disk, ms[i].path, ms[i].after) /\ Do(p, j)
        /\ j = [job[p] EXCEPT !.todo = @ \ {i}]
  BY <1>p
<1>4. /\ IsJob(j) /\ j.op = "rollback" /\ j.step = "reinstall" /\ j.done = job[p].done
      /\ j.todo = job[p].todo \ {i} /\ j.id = job[p].id
  BY <1>0, <1>1, <1>3 DEF IsJob
<1>5. job'[p] = j /\ Inside(p)'
  BY <1>1, <1>3, Moved DEF AdoptInv, Stay, lockVars, Inside, At
<1>6. i \in DOMAIN ms
  BY <1>2
<1>7. /\ IsFiles(disk') /\ AcceptedInv' /\ UNCHANGED Settled
      /\ disk'[ms[i].path] = ms[i].after
      /\ \A k \in DOMAIN ms : k # i => disk'[ms[k].path] = disk[ms[k].path]
  BY <1>1, <1>2, <1>3, <1>6, OneFile
<1>8. RollbackInv(p)'
  BY <1>1, <1>2, <1>4, <1>5, <1>7 DEF RollbackInv
<1>9. JobInv(p)'
  BY <1>0, <1>1, <1>4, <1>5, <1>8 DEF JobInv, StartInv, ApplyInv, UndoInv, CleanInv, RestoreInv,
    Applying, Undoing, Restoring
<1>10. AdoptInv'
  BY <1>0, <1>1, <1>3, <1>4, <1>7, <1>9, FilesOnly
<1> QED BY <1>1, <1>7, <1>10

\* The header of a journal is cut short.
LEMMA CrashInHeaderStep ==
  ASSUME AdoptInv, LockInv, NEW p \in Procs, CrashInHeader(p)
  PROVE  AdoptInv' /\ UNCHANGED <<Settled, receipts>>
<1>0. IsFiles(disk) /\ IsFiles(tmp) /\ IsFiles(bak) /\ JournalInv /\ ReceiptsInv
  BY Known
<1>1. /\ Inside(p) /\ Die(p) /\ Do(p, Idle) /\ journal = NoJournal
      /\ UNCHANGED <<disk, tmp, bak, durable, receipts, touched>>
  BY DEF CrashInHeader, Doing, files, world
<1>2. PICK op \in {"torn-adopt", "torn-rollback"} : journal' = [NoJournal EXCEPT !.op = op]
  BY DEF CrashInHeader
<1>3. /\ journal'.muts = <<>> /\ journal'.op \notin {"adopt", "rollback"} /\ IsJournal(journal')
      /\ journal.muts = <<>> /\ journal.op = "none" /\ ~durable
  BY <1>0, <1>1, <1>2 DEF NoJournal, IsJournal, JournalInv
<1>4. SettledOf(disk, journal, durable) = disk /\ SettledOf(disk, journal', durable) = disk
  BY <1>0, <1>3, NothingOpen
<1>5. UNCHANGED Settled
  BY <1>1, <1>4 DEF Settled, SettledOf
<1>6. JobInv(p)' /\ IsJob(Idle) /\ IsSeq(Idle.done)
  BY <1>1, Moved, Rests DEF AdoptInv
<1>7. JournalInv' /\ AcceptedInv'
  BY <1>1, <1>3, SeqEmpty DEF JournalInv, AcceptedInv, Distinct, PathsOf
<1>8. ReceiptsInv'
  BY <1>0, <1>1 DEF ReceiptsInv
<1>9. IsSeq(journal'.muts)
  BY <1>3, SeqEmpty
<1>10. IsFiles(disk') /\ IsFiles(tmp') /\ IsFiles(bak') /\ durable' \in BOOLEAN
  BY <1>0, <1>1, Known
<1>11. AdoptInv'
  BY <1>1, <1>3, <1>6, <1>7, <1>8, <1>9, <1>10, InsideStep
<1> QED BY <1>1, <1>5, <1>11

\* A rollback opens its journal on the installed files, or resumes it.
LEMMA StartRollbackStep ==
  ASSUME AdoptInv, LockInv, NEW p \in Procs, StartRollback(p)
  PROVE  AdoptInv' /\ UNCHANGED <<Settled, receipts>>
<1> DEFINE ms == receipts[job[p].id].muts
<1>0. /\ IsFiles(disk) /\ IsFiles(tmp) /\ IsFiles(bak) /\ JournalInv /\ ReceiptsInv
      /\ AcceptedInv /\ IsJob(job[p]) /\ IsSeq(job[p].done) /\ StartInv(p) /\ IsJournal(journal)
  BY Known DEF JobInv
<1>1. /\ job[p].op = "rollback" /\ job[p].step = "start" /\ Inside(p)
      /\ UNCHANGED <<disk, tmp, bak, durable, receipts>>
  BY DEF StartRollback, Doing, files
<1>2. job[p].id \in DOMAIN receipts /\ job[p].done = <<>>
  BY <1>0, <1>1 DEF StartInv
<1>3. IsSeq(ms) /\ Distinct(ms)
  BY <1>0, <1>2 DEF ReceiptsInv
<1>4. CASE Exit(p) /\ UNCHANGED <<journal, touched>>
  BY <1>1, <1>4, Moved, Rests, QuietStep DEF AdoptInv, Exit, files, records
<1>5. CASE ~(Exit(p) /\ UNCHANGED <<journal, touched>>)
  <2>1. PICK j : /\ Do(p, j) /\ Stay
                 /\ j = [job[p] EXCEPT !.step = "back", !.todo = DOMAIN ms]
                 /\ journal' = [op |-> "rollback", muts |-> ms, id |-> job[p].id]
    BY <1>5 DEF StartRollback
  <2>2. \/ /\ journal = NoJournal /\ \A i \in DOMAIN ms : disk[ms[i].path] = ms[i].after
        \/ journal.op = "rollback" /\ journal.id = job[p].id /\ touched' = touched
    BY <1>5 DEF StartRollback
  <2>3. /\ journal'.op = "rollback" /\ journal'.muts = ms /\ journal'.id = job[p].id
        /\ IsJournal(journal')
    BY <2>1 DEF IsJournal
  <2>4. /\ IsJob(j) /\ j.op = "rollback" /\ j.step = "back" /\ j.done = <<>>
        /\ j.todo = DOMAIN ms /\ j.id = job[p].id
    BY <1>0, <1>1, <1>2, <2>1 DEF IsJob
  <2>5. job'[p] = j /\ Inside(p)'
    BY <1>1, <2>1, Moved DEF AdoptInv, Stay, lockVars, Inside, At
  <2> HIDE DEF ms
  <2>6. ~durable
    BY <1>0, <2>2 DEF JournalInv, NoJournal
  <2>7. JournalInv'
    <3>1. journal'.muts = receipts'[journal'.id].muts /\ journal'.id \in DOMAIN receipts'
      BY <1>1, <1>2, <2>3 DEF ms
    <3> QED BY <1>1, <1>3, <2>3, <2>6, <3>1 DEF JournalInv
  <2>8. UNCHANGED Settled /\ AcceptedInv'
    <3>1. CASE journal = NoJournal /\ \A i \in DOMAIN ms : disk[ms[i].path] = ms[i].after
      <4>1. journal.muts = <<>>
        BY <3>1 DEF NoJournal
      <4>2. Complete(disk, journal', durable)
        BY <2>3, <3>1 DEF Outcome, Complete
      <4>3. Distinct(journal'.muts)
        BY <1>3, <2>3
      <4>4. SettledOf(disk, journal', durable) = disk /\ SettledOf(disk, journal, durable) = disk
        BY <1>0, <4>1, <4>2, <4>3, SettledClosed, NothingOpen
      <4>5. UNCHANGED Settled
        BY <1>1, <4>4 DEF Settled, SettledOf
      <4>6. AcceptedInv'
        BY <1>1, <2>3, <3>1 DEF AcceptedInv, Fine
      <4> QED BY <4>5, <4>6
    <3>2. CASE journal.op = "rollback" /\ journal.id = job[p].id /\ touched' = touched
      <4>1. journal' = journal
        <5>1. journal.muts = ms
          BY <1>0, <3>2 DEF JournalInv, ms
        <5>2. journal = [op |-> "rollback", muts |-> ms, id |-> job[p].id]
          BY <1>0, <3>2, <5>1 DEF IsJournal
        <5> QED BY <2>1, <5>2
      <4> QED BY <1>0, <1>1, <3>2, <4>1 DEF Settled, AcceptedInv, Fine, Intact
    <3> QED BY <2>2, <3>1, <3>2
  <2>9. RollbackInv(p)'
    BY <2>3, <2>4, <2>5 DEF RollbackInv
  <2>10. StartInv(p)'
    BY <1>1, <1>2, <2>4, <2>5 DEF StartInv
  <2>11. JobInv(p)'
    BY <2>4, <2>5, <2>9, <2>10 DEF JobInv, ApplyInv, UndoInv, CleanInv, RestoreInv,
      Applying, Undoing, Restoring
  <2>12. ReceiptsInv'
    BY <1>0, <1>1 DEF ReceiptsInv
  <2>13. IsSeq(journal'.muts) /\ IsSeq(j.done)
    BY <1>3, <2>3, <2>4, SeqEmpty
  <2>14. IsFiles(disk') /\ IsFiles(tmp') /\ IsFiles(bak') /\ durable' \in BOOLEAN
    BY <1>0, <1>1, Known
  <2>15. AdoptInv'
    BY <1>1, <2>1, <2>3, <2>4, <2>7, <2>8, <2>11, <2>12, <2>13, <2>14, InsideStep
  <2> QED BY <1>1, <2>8, <2>15
<1> QED BY <1>4, <1>5

\* Whoever closes the journal leaves the files as they are.
LEMMA CloseStep ==
  ASSUME AdoptInv, LockInv, NEW p \in Procs, Inside(p), CloseJournal(p)
  PROVE  AdoptInv' /\ Settled' = disk /\ UNCHANGED <<disk, receipts>>
<1>0. IsFiles(disk) /\ IsFiles(tmp) /\ IsFiles(bak) /\ JournalInv /\ ReceiptsInv
  BY Known
<1>1. /\ Leave(p) /\ Do(p, Idle) /\ journal' = NoJournal /\ durable' = FALSE
      /\ UNCHANGED <<disk, tmp, bak, receipts>>
  BY DEF CloseJournal, Exit, files
<1>2. journal'.muts = <<>> /\ journal'.op = "none" /\ IsJournal(journal')
  BY <1>1 DEF NoJournal, IsJournal
<1>3. SettledOf(disk, journal', durable') = disk
  BY <1>0, <1>2, NothingOpen
<1>4. Settled' = disk
  BY <1>1, <1>3 DEF Settled, SettledOf
<1>5. JobInv(p)' /\ IsJob(Idle) /\ IsSeq(Idle.done)
  BY <1>1, Moved, Rests DEF AdoptInv
<1>6. JournalInv' /\ AcceptedInv'
  BY <1>1, <1>2, SeqEmpty DEF JournalInv, AcceptedInv, Distinct, PathsOf
<1>7. ReceiptsInv'
  BY <1>0, <1>1 DEF ReceiptsInv
<1>8. IsSeq(journal'.muts)
  BY <1>2, SeqEmpty
<1>9. IsFiles(disk') /\ IsFiles(tmp') /\ IsFiles(bak') /\ durable' \in BOOLEAN
  BY <1>0, <1>1
<1>10. AdoptInv'
  BY <1>1, <1>2, <1>5, <1>6, <1>7, <1>8, <1>9, InsideStep
<1> QED BY <1>1, <1>4, <1>10

\* An adoption or a recovery finishes, an undo or a way back is complete: the
\* files are as the transaction leaves them.
LEMMA FinishStep ==
  ASSUME AdoptInv, LockInv, NEW p \in Procs, Finish(p) \/ UndoFinish(p) \/ Reinstalled(p)
  PROVE  AdoptInv' /\ UNCHANGED <<Settled, receipts>>
<1>0. JobInv(p) /\ JournalInv /\ IsFiles(disk) /\ Distinct(journal.muts)
  BY Known
<1>1. Inside(p) /\ CloseJournal(p)
  BY DEF Finish, UndoFinish, Reinstalled, Doing
<1>2. Complete(disk, journal, durable)
  <2>1. CASE Finish(p)
    <3>1. CleanInv(p) /\ job[p].op \in {"adopt", "recover"} /\ job[p].step = "cleanup"
      BY <1>0, <2>1 DEF JobInv, Finish, Doing
    <3> QED BY <3>1 DEF CleanInv, Outcome, Complete
  <2>2. CASE UndoFinish(p)
    <3>1. UndoInv(p) /\ job[p].op = "adopt" /\ job[p].step = "undo" /\ job[p].done = <<>>
      BY <1>0, <2>2 DEF JobInv, UndoFinish, Doing
    <3> QED BY <3>1, SeqEmpty DEF UndoInv, Undoing, Outcome, Complete
  <2>3. CASE Reinstalled(p)
    <3>1. /\ RollbackInv(p) /\ job[p].op = "rollback" /\ job[p].step = "reinstall"
          /\ job[p].todo = {}
      BY <1>0, <2>3 DEF JobInv, Reinstalled, Doing
    <3> QED BY <3>1 DEF RollbackInv, Outcome, Complete
  <2> QED BY <2>1, <2>2, <2>3
<1>3. Settled = disk
  BY <1>0, <1>2, SettledClosed, SettledIs
<1> QED BY <1>1, <1>3, CloseStep

\* Neither a stutter nor a new version of the package is a transaction's business.
LEMMA Untouched ==
  ASSUME AdoptInv,
         UNCHANGED <<disk, tmp, bak, journal, durable, receipts, touched, job, ctl>>
  PROVE  AdoptInv' /\ UNCHANGED <<Settled, receipts>>
<1>2. UNCHANGED <<Settled, receipts>>
  BY DEF Settled
<1>3. ShapeInv'
  BY DEF AdoptInv, ShapeInv
<1>4. ReceiptsInv' /\ JournalInv'
  BY DEF AdoptInv, ReceiptsInv, JournalInv
<1>5. AcceptedInv'
  BY DEF AdoptInv, AcceptedInv, Fine, Intact
<1>6. ASSUME NEW q \in Procs PROVE JobInv(q)'
  <2>1. JobInv(q) /\ job'[q] = job[q] /\ (Inside(q)' <=> Inside(q))
    BY DEF AdoptInv, Inside, At
  <2>2. StartInv(q)' /\ UndoInv(q)' /\ CleanInv(q)' /\ RollbackInv(q)'
    BY <2>1 DEF JobInv, StartInv, UndoInv, CleanInv, RollbackInv
  <2>3. ApplyInv(q)'
    BY <1>2, <2>1 DEF JobInv, ApplyInv, Now
  <2>4. RestoreInv(q)'
    BY <2>1 DEF JobInv, RestoreInv, Intact
  <2> QED BY <2>2, <2>3, <2>4 DEF JobInv
<1> QED BY <1>2, <1>3, <1>4, <1>5, <1>6 DEF AdoptInv

\* The abstract specification names the same contents ...
LEMMA SameContents ==
  /\ Atomic!LockFile = LockFile /\ Atomic!Files = Files /\ Atomic!Absent = Absent
  /\ \A v : Atomic!Packaged(v) = Packaged(v)
  /\ \A o, s, h : Atomic!Entry(o, s, h) = Entry(o, s, h)
  /\ \A l : Atomic!LockEntries(l) = LockEntries(l)
<1>1. Atomic!LockFile = LockFile /\ Atomic!Files = Files
  BY DEF Atomic!LockFile, LockFile, Atomic!Files, Files, Atomic!Range, Range
<1>2. Atomic!Absent = Absent /\ \A v : Atomic!Packaged(v) = Packaged(v)
  BY DEF Atomic!Absent, Absent, Atomic!Content, Content, Atomic!Packaged, Packaged
<1>3. \A o, s, h : Atomic!Entry(o, s, h) = Entry(o, s, h)
  BY DEF Atomic!Entry, Entry
<1>4. \A l : Atomic!LockEntries(l) = LockEntries(l)
  BY DEF Atomic!LockEntries, LockEntries, Atomic!NoEntries, NoEntries
<1> QED BY <1>1, <1>2, <1>3, <1>4


\* ... and plans the same ...
LEMMA SameAction ==
  \A d, f, o : Atomic!ActionFor(d, f, o) = ActionFor(d, f, o)
<1>1. \A e, f, c, v : Atomic!ActionForManaged(e, f, c, v) = ActionForManaged(e, f, c, v)
  BY SameContents DEF Atomic!ActionForManaged, ActionForManaged, Atomic!Claims, Claims
<1>2. \A f, c, v, ch : Atomic!ActionForSeed(f, c, v, ch) = ActionForSeed(f, c, v, ch)
  BY SameContents DEF Atomic!ActionForSeed, ActionForSeed, Atomic!MergeSelected, MergeSelected
<1> QED BY <1>1, <1>2, SameContents DEF Atomic!ActionFor, ActionFor,
      Atomic!ActionForProjectFile, ActionForProjectFile

\* ... for every file.
LEMMA SamePlan ==
  ASSUME NEW d, NEW opts
  PROVE  Atomic!Plan(d, opts) = Plan(d, opts)
<1>1. Atomic!Selected(opts.profile) = Selected(opts.profile)
  BY DEF Atomic!Selected, Selected, Atomic!Range, Range
<1>2. [f \in Atomic!Selected(opts.profile) |-> Atomic!ActionFor(d, f, opts)]
        = [f \in Selected(opts.profile) |-> ActionFor(d, f, opts)]
  BY <1>1, SameAction
<1>3. d[Atomic!LockFile] = d[LockFile]
  BY SameContents
<1> QED BY <1>2, <1>3 DEF Atomic!Plan, Plan


\* The plan changes and blocks the same,
LEMMA SameChanges ==
  \A plan : Atomic!Changes(plan) = Changes(plan) /\ (Atomic!Blocked(plan) <=> Blocked(plan))
BY DEF Atomic!Changes, Changes, Atomic!Mutating, Mutating, Atomic!Blocked, Blocked

\* has the same lock file,
LEMMA SameLock ==
  \A plan : Atomic!NewLock(plan) = NewLock(plan)
BY SameContents DEF Atomic!NewLock, NewLock, Atomic!EntriesOf, EntriesOf

\* and installs the same.
LEMMA SameInstalled ==
  \A d, plan : Atomic!Installed(d, plan) = Installed(d, plan)
BY SameContents, SameLock, SameChanges DEF Atomic!Installed, Installed

\* The plans of the receipts.
Taken == [i \in DOMAIN receipts |-> receipts[i].plan]

\* A plan more than before.
LEMMA TakenAppend ==
  ASSUME IsSeq(receipts), NEW r, receipts' = Append(receipts, r)
  PROVE  /\ Taken' = Append(Taken, r.plan)
         /\ Taken'[Len(receipts) + 1] = r.plan /\ Len(receipts) + 1 \in DOMAIN Taken'
<1> DEFINE n == Len(receipts)
           new == Append(receipts, r)
<1>1. n \in Nat /\ DOMAIN receipts = 1..n
  BY SeqShape
<1>2. /\ DOMAIN new = 1..(n + 1) /\ new[n + 1] = r
      /\ \A i \in 1..n : new[i] = receipts[i]
  BY <1>1, SeqAppend
<1>3. IsSeq(Taken) /\ Len(Taken) = n
  <2> DEFINE S == {Taken[i] : i \in 1..n}
  <2>1. DOMAIN Taken = 1..n /\ Taken \in [1..n -> S]
    BY <1>1 DEF Taken
  <2>2. Taken \in Seq(S) /\ Len(Taken) = n
    BY <1>1, <2>1, SeqDef, LenProperties
  <2> QED BY <2>1, <2>2 DEF IsSeq
<1>4. /\ DOMAIN Append(Taken, r.plan) = 1..(n + 1) /\ Append(Taken, r.plan)[n + 1] = r.plan
      /\ \A i \in 1..n : Append(Taken, r.plan)[i] = Taken[i]
      /\ IsSeq(Append(Taken, r.plan))
  BY <1>1, <1>3, SeqAppend DEF Taken
<1> HIDE DEF new
<1>5. Taken' = [i \in 1..(n + 1) |-> new[i].plan]
  BY <1>2 DEF Taken, new
<1>6. \A i \in 1..(n + 1) : i = n + 1 \/ i \in 1..n
  BY <1>1
<1>7. \A i \in 1..(n + 1) : Taken'[i] = Append(Taken, r.plan)[i]
  BY <1>1, <1>2, <1>4, <1>5, <1>6 DEF Taken
<1>8. Append(Taken, r.plan) = [i \in 1..(n + 1) |-> Append(Taken, r.plan)[i]]
  BY <1>4, SeqDef DEF IsSeq
<1>9. n + 1 \in 1..(n + 1)
  BY <1>1
<1> QED BY <1>2, <1>5, <1>7, <1>8, <1>9

\* The receipt installs the whole plan, in a project that is the one it was
\* made for.
LEMMA WriteReceiptStep ==
  ASSUME AdoptInv, LockInv, NEW p \in Procs, WriteReceipt(p)
  PROVE  AdoptInv' /\ Atomic!Install
<1> DEFINE ms == journal.muts
           plan == job[p].plan
           r == [plan |-> plan, muts |-> job[p].done]
<1>0. /\ IsJob(job[p]) /\ IsFiles(disk) /\ IsFiles(tmp) /\ IsFiles(bak) /\ JournalInv
      /\ ReceiptsInv /\ AcceptedInv /\ StartInv(p) /\ ApplyInv(p) /\ Distinct(ms)
      /\ IsJournal(journal) /\ IsSeq(ms) /\ IsSeq(receipts)
  BY Known DEF JobInv
<1>1. /\ job[p].op = "adopt" /\ job[p].step = "prepare" /\ job[p].todo = {} /\ Inside(p) /\ Stay
      /\ UNCHANGED <<disk, tmp, bak, journal, touched>> /\ durable' = TRUE
      /\ receipts' = Append(receipts, r)
  BY DEF WriteReceipt, Doing, files, world
<1>2. /\ journal.op = "adopt" /\ ~durable /\ job[p].done = ms
      /\ PathsOf(ms) = Written(plan) /\ plan = Plan(Settled, plan.opts)
      /\ \A i \in DOMAIN ms : Follows(plan, ms[i])
      /\ \A i \in DOMAIN ms : disk[ms[i].path] = ms[i].after
  BY <1>0, <1>1 DEF ApplyInv, Applying
<1>3. PICK j : Do(p, j) /\ j = [job[p] EXCEPT !.step = "cleanup"]
  BY DEF WriteReceipt
<1>4. /\ IsJob(j) /\ j.op = "adopt" /\ j.step = "cleanup" /\ j.done = ms /\ j.plan = plan
  BY <1>0, <1>1, <1>2, <1>3 DEF IsJob
<1>5. job'[p] = j /\ Inside(p)'
  BY <1>1, <1>3, Moved DEF AdoptInv, Stay, lockVars, Inside, At
<1>6. r.plan = plan /\ r.muts = ms
  BY <1>2
<1> HIDE DEF r, plan
<1>7. /\ DOMAIN receipts' = 1..(Len(receipts) + 1) /\ receipts'[Len(receipts) + 1] = r
      /\ \A i \in DOMAIN receipts : receipts'[i] = receipts[i]
      /\ Len(receipts) \in Nat /\ DOMAIN receipts = 1..Len(receipts)
  BY <1>0, <1>1, SeqAppend, SeqShape
<1>8. \A i \in DOMAIN receipts' : i \in DOMAIN receipts \/ i = Len(receipts) + 1
  BY <1>7
<1>9. ReceiptsInv'
  <2> SUFFICES ASSUME NEW i \in DOMAIN receipts'
               PROVE  /\ IsSeq(receipts'[i].muts) /\ Distinct(receipts'[i].muts)
                      /\ PathsOf(receipts'[i].muts) = Written(receipts'[i].plan)
                      /\ \A k \in DOMAIN receipts'[i].muts :
                           Follows(receipts'[i].plan, receipts'[i].muts[k])
    BY DEF ReceiptsInv
  <2>1. CASE i \in DOMAIN receipts
    BY <1>0, <1>7, <2>1 DEF ReceiptsInv
  <2>2. CASE i = Len(receipts) + 1
    BY <1>0, <1>2, <1>6, <1>7, <2>2
  <2> QED BY <1>8, <2>1, <2>2
<1>10. JournalInv'
  BY <1>0, <1>1, <1>2 DEF JournalInv
<1>11. AcceptedInv'
  BY <1>1, <1>2 DEF AcceptedInv, Fine
<1>12. CleanInv(p)'
  BY <1>1, <1>2 DEF CleanInv
<1>13. JobInv(p)'
  <2>1. StartInv(p)'
    BY <1>0, <1>1, <1>4, <1>5 DEF StartInv, plan
  <2> QED BY <1>4, <1>5, <1>12, <2>1 DEF JobInv, ApplyInv, UndoInv, RestoreInv, RollbackInv,
          Applying, Undoing, Restoring
<1>14. AdoptInv'
  <2>1. IsFiles(disk') /\ IsFiles(tmp') /\ IsFiles(bak') /\ durable' \in BOOLEAN
        /\ IsJournal(journal') /\ IsSeq(journal'.muts) /\ IsSeq(j.done)
    BY <1>0, <1>1, <1>4
  <2> QED BY <1>1, <1>3, <1>4, <1>9, <1>10, <1>11, <1>13, <2>1, InsideStep
<1>15. Settled' = Installed(Settled, plan)
  <2>1. /\ \A i \in DOMAIN ms : SettledOf(disk, journal, durable')[ms[i].path] = ms[i].after
        /\ \A f \in Files \ PathsOf(ms) : SettledOf(disk, journal, durable')[f] = disk[f]
    <3>1. \A i \in DOMAIN ms : Outcome(journal, durable', i) = ms[i].after
      BY <1>1 DEF Outcome
    <3> QED BY <1>0, <3>1, SettledAt
  <2>2. \A f \in Files \ PathsOf(ms) : Settled[f] = disk[f]
    BY <1>0, SettledAt, SettledIs
  <2>3. Settled' = SettledOf(disk, journal, durable')
    BY <1>1 DEF Settled, SettledOf
  <2>4. ASSUME NEW f \in Files
        PROVE  SettledOf(disk, journal, durable')[f]
                 = IF f = LockFile THEN NewLock(plan)
                   ELSE IF f \in Changes(plan) THEN plan.actions[f].after ELSE Settled[f]
    <3>1. CASE f \in PathsOf(ms)
      <4>1. PICK i \in DOMAIN ms : ms[i].path = f
        BY <3>1 DEF PathsOf
      <4>2. SettledOf(disk, journal, durable')[f] = ms[i].after /\ Follows(plan, ms[i])
        BY <1>2, <2>1, <4>1 DEF plan
      <4> QED BY <1>2, <3>1, <4>1, <4>2 DEF Follows, Written, plan
    <3>2. CASE f \notin PathsOf(ms)
      <4>1. f # LockFile /\ f \notin Changes(plan)
        BY <1>2, <3>2 DEF Written, plan
      <4> QED BY <2>1, <2>2, <3>2, <4>1
    <3> QED BY <3>1, <3>2
  <2>5. SettledOf(disk, journal, durable') = [f \in Files |-> SettledOf(disk, journal, durable')[f]]
    BY DEF SettledOf
  <2> QED BY <2>3, <2>4, <2>5 DEF Installed
<1>16. Atomic!Install
  <2>1. /\ Taken' = Append(Taken, plan) /\ Taken'[Len(receipts) + 1] = plan
        /\ Len(receipts) + 1 \in DOMAIN Taken'
    BY <1>0, <1>1, <1>6, TakenAppend
  <2>2. plan = Plan(Settled, plan.opts) /\ ~Blocked(plan)
    BY <1>0, <1>1, <1>2 DEF StartInv, plan
  <2>3. plan.opts \in {Taken'[i].opts : i \in DOMAIN Taken'}
    BY <2>1
  <2>4. /\ Atomic!Plan(Settled, plan.opts) = plan /\ ~Atomic!Blocked(plan)
        /\ Settled' = Atomic!Installed(Settled, plan)
    BY <1>15, <2>2, SamePlan, SameChanges, SameInstalled
  <2> HIDE DEF ms
  <2> QED BY <2>1, <2>3, <2>4 DEF Atomic!Install, Taken
<1> QED BY <1>14, <1>16

\* A rollback that is complete takes the whole plan back.
LEMMA RolledBackStep ==
  ASSUME AdoptInv, LockInv, NEW p \in Procs, RolledBack(p)
  PROVE  AdoptInv' /\ Atomic!Undo
<1> DEFINE ms == journal.muts
           id == journal.id
           plan == receipts[journal.id].plan
<1>0. /\ JournalInv /\ ReceiptsInv /\ RollbackInv(p) /\ IsFiles(disk) /\ Distinct(ms)
  BY Known DEF JobInv
<1>1. /\ job[p].op = "rollback" /\ job[p].step = "back" /\ job[p].todo = {}
      /\ Inside(p) /\ CloseJournal(p)
  BY DEF RolledBack, Doing
<1>2. AdoptInv' /\ Settled' = disk /\ UNCHANGED receipts
  BY <1>1, CloseStep
<1>3. journal.op = "rollback" /\ \A i \in DOMAIN ms : disk[ms[i].path] = ms[i].before
  BY <1>0, <1>1 DEF RollbackInv
<1>4. id \in DOMAIN receipts /\ ms = receipts[id].muts
  BY <1>0, <1>3 DEF JournalInv
<1>5. PathsOf(ms) = Written(plan) /\ \A i \in DOMAIN ms : Follows(plan, ms[i])
  BY <1>0, <1>4 DEF ReceiptsInv
<1>6. /\ \A i \in DOMAIN ms : Settled[ms[i].path] = ms[i].after
      /\ \A f \in Files \ PathsOf(ms) : Settled[f] = disk[f]
  <2>1. \A i \in DOMAIN ms : Outcome(journal, durable, i) = ms[i].after
    BY <1>3 DEF Outcome
  <2> QED BY <1>0, <2>1, SettledAt, SettledIs
<1> HIDE DEF ms, plan, id
<1>7. \A f \in Written(plan) :
        /\ f # LockFile => Settled[f] = plan.actions[f].after
        /\ f = LockFile => Settled[f] = NewLock(plan)
        /\ disk[f] = IF f = LockFile THEN plan.prior ELSE plan.actions[f].before
  <2> SUFFICES ASSUME NEW f \in Written(plan)
               PROVE  /\ f # LockFile => Settled[f] = plan.actions[f].after
                      /\ f = LockFile => Settled[f] = NewLock(plan)
                      /\ disk[f] = IF f = LockFile THEN plan.prior ELSE plan.actions[f].before
    OBVIOUS
  <2>1. PICK i \in DOMAIN ms : ms[i].path = f
    BY <1>5 DEF PathsOf
  <2> QED BY <1>3, <1>5, <1>6, <2>1 DEF Follows
<1>8. LockFile \in Written(plan)
  BY DEF Written
<1>9. \A f \in Files : f \notin Written(plan) => Settled[f] = disk[f]
  BY <1>5, <1>6
<1>10. disk = [f \in Files |-> disk[f]]
  BY <1>0 DEF IsFiles
<1> DEFINE b == Atomic!Before(plan)
<1>11. b = [f \in Written(plan) |-> IF f = LockFile THEN plan.prior ELSE plan.actions[f].before]
  BY SameContents, SameChanges DEF Atomic!Before, Written
<1>12. DOMAIN b = Written(plan) /\ \A f \in Written(plan) : b[f] = disk[f]
  BY <1>7, <1>11
<1>13. Taken[id] = plan /\ id \in DOMAIN Taken /\ Taken' = Taken
  BY <1>2, <1>4 DEF Taken, plan, id
<1> HIDE DEF b
<1>14. disk = [f \in Files |-> IF f \in DOMAIN b THEN b[f] ELSE Settled[f]]
  BY <1>9, <1>10, <1>12
<1>15. /\ \A f \in DOMAIN b : f # Atomic!LockFile => Settled[f] = plan.actions[f].after
       /\ Settled[Atomic!LockFile] = Atomic!NewLock(plan)
  BY <1>7, <1>8, <1>12, SameContents, SameLock
<1>16. Settled' = [f \in Atomic!Files |-> IF f \in DOMAIN b THEN b[f] ELSE Settled[f]]
  BY <1>2, <1>14, SameContents
<1>17. Atomic!Undo
  BY <1>13, <1>15, <1>16 DEF Atomic!Undo, Taken, b
<1> QED BY <1>2, <1>17

\* An author's edit of a file that a transaction holds is put off until it is
\* closed; any other is one of the project.
LEMMA AuthorEditsStep ==
  ASSUME AdoptInv, NEW f \in Range(Payload), NEW c \in {Absent, Authored(1)}, AuthorEdits(f, c)
  PROVE  AdoptInv' /\ (Atomic!Edit \/ UNCHANGED <<Settled, receipts>>)
<1> DEFINE ms == journal.muts
<1>0. /\ IsFiles(disk) /\ IsFiles(tmp) /\ IsFiles(bak) /\ JournalInv /\ ReceiptsInv /\ AcceptedInv
      /\ Distinct(ms)
  BY DEF AdoptInv, ShapeInv, JournalInv
<1>1. /\ \A p \in Procs : ~Inside(p) /\ ~Inside(p)'
      /\ disk' = Put(disk, f, c) /\ UNCHANGED <<tmp, bak, journal, durable, receipts, job>>
      /\ touched' = IF journal = NoJournal THEN {} ELSE touched \cup {f}
  BY DEF AuthorEdits, records, lockVars, Inside, At
<1>2. f \in Files
  BY DEF Files
<1>3. IsFiles(disk') /\ disk'[f] = c /\ \A g \in Files : g # f => disk'[g] = disk[g]
  BY <1>0, <1>1, <1>2, PutFile
<1>4. ShapeInv'
  BY <1>1, <1>3 DEF AdoptInv, ShapeInv
<1>5. ReceiptsInv' /\ JournalInv'
  BY <1>0, <1>1 DEF ReceiptsInv, JournalInv
<1>6. AcceptedInv'
  <2>1. CASE journal = NoJournal
    <3>1. journal'.muts = <<>>
      BY <1>1, <2>1 DEF NoJournal
    <3> QED BY <3>1, SeqEmpty DEF AcceptedInv
  <2>2. CASE journal # NoJournal
    <3>1. \A i \in DOMAIN ms : ms[i].path \in Files
      BY <1>0 DEF Distinct, PathsOf
    <3>2. ASSUME NEW i \in DOMAIN ms, ms[i].path \notin touched'
          PROVE  Fine(ms[i])'
      BY <1>0, <1>1, <1>3, <2>2, <3>1, <3>2 DEF AcceptedInv, Fine, Intact
    <3> QED BY <1>1, <3>2 DEF AcceptedInv
  <2> QED BY <2>1, <2>2
<1>7. ASSUME NEW p \in Procs PROVE JobInv(p)'
  <2>1. job'[p] = job[p] /\ job[p].step \in {"none", "start"} /\ StartInv(p)
    BY <1>1 DEF AdoptInv, JobInv, StartInv
  <2>2. StartInv(p)'
    BY <1>1, <2>1 DEF StartInv
  <2> QED BY <2>1, <2>2 DEF JobInv, ApplyInv, UndoInv, CleanInv, RestoreInv, RollbackInv,
          Applying, Undoing, Restoring
<1>8. CASE f \in PathsOf(ms)
  <2>1. SettledOf(disk', journal, durable) = SettledOf(disk, journal, durable)
    BY <1>0, <1>3, <1>8, SettledWrite
  <2> QED BY <1>1, <1>4, <1>5, <1>6, <1>7, <2>1 DEF AdoptInv, Settled, SettledOf
<1>9. CASE f \notin PathsOf(ms)
  <2>1. /\ \A i \in DOMAIN ms : SettledOf(disk, journal, durable)[ms[i].path]
                                   = SettledOf(disk', journal, durable)[ms[i].path]
        /\ \A g \in Files \ PathsOf(ms) : /\ SettledOf(disk, journal, durable)[g] = disk[g]
                                          /\ SettledOf(disk', journal, durable)[g] = disk'[g]
    BY <1>0, SettledAt
  <2>2. \A g \in Files : g # f =>
          SettledOf(disk', journal, durable)[g] = SettledOf(disk, journal, durable)[g]
    BY <1>3, <2>1 DEF PathsOf
  <2>3. Settled' = SettledOf(disk', journal, durable) /\ Settled = SettledOf(disk, journal, durable)
    BY <1>1 DEF Settled, SettledOf
  <2>4. /\ Settled = [g \in Files |-> Settled[g]] /\ Settled' = [g \in Files |-> Settled'[g]]
    BY <2>3 DEF SettledOf
  <2>5. Settled'[f] = c /\ \A g \in Files : g # f => Settled'[g] = Settled[g]
    BY <1>2, <1>3, <1>9, <2>1, <2>2, <2>3
  <2>6. Settled' = [Settled EXCEPT ![f] = Settled'[f]]
    BY <1>2, <2>4, <2>5
  <2>7. c.kind \in {"absent", "authored"}
    BY DEF Absent, Authored, Content
  <2>8. Atomic!Edit
    BY <1>1, <1>2, <2>5, <2>6, <2>7, SameContents DEF Atomic!Edit
  <2> QED BY <1>4, <1>5, <1>6, <1>7, <2>8 DEF AdoptInv
<1> QED BY <1>8, <1>9

-----------------------------------------------------------------------------
(* Every step.                                                             *)

\* A project nobody has adopted into.
LEMMA AdoptStarts ==
  ASSUME Init
  PROVE  AdoptInv
<1>1. /\ journal = NoJournal /\ durable = FALSE /\ receipts = <<>>
      /\ tmp = [f \in Files |-> Absent] /\ bak = [f \in Files |-> Absent]
      /\ job = [p \in Procs |-> Idle] /\ LockInit
  BY DEF Init
<1>2. IsFiles(disk)
  BY DEF Init, Fresh, IsFiles
<1>3. journal.muts = <<>> /\ journal.op = "none" /\ IsJournal(journal)
  BY <1>1 DEF NoJournal, IsJournal
<1>4. ShapeInv
  BY <1>1, <1>2, <1>3, SeqEmpty, IdleJob DEF ShapeInv, IsFiles
<1>5. ReceiptsInv /\ JournalInv /\ AcceptedInv
  BY <1>1, <1>3, SeqEmpty DEF ReceiptsInv, JournalInv, AcceptedInv, Distinct, PathsOf
<1>6. ASSUME NEW p \in Procs PROVE JobInv(p)
  BY <1>1, IdleJob DEF JobInv, StartInv, ApplyInv, UndoInv, CleanInv, RestoreInv, RollbackInv,
    Applying, Undoing, Restoring
<1> QED BY <1>4, <1>5, <1>6 DEF AdoptInv

\* What each step does to the invariant and to the project as a whole.
LEMMA AdoptKept ==
  ASSUME AdoptInv, LockInv, [Next]_vars
  PROVE  AdoptInv' /\ [Atomic!Next]_<<Settled, receipts>>
<1>1. ASSUME NEW p \in Procs, BeginAdopt(p) \/ BeginRecover(p)
                              \/ \E i \in DOMAIN receipts : BeginRollback(p, i)
      PROVE  AdoptInv' /\ UNCHANGED <<Settled, receipts>>
  BY <1>1, BeginAdoptStep, BeginOtherStep
<1>2. ASSUME NEW p \in Procs, Apply(p)
      PROVE  AdoptInv' /\ (Atomic!Install \/ UNCHANGED <<Settled, receipts>>)
  <2>1. CASE StartAdopt(p) \/ Prepare(p) \/ Stage(p) \/ SetAside(p) \/ Replace(p)
    BY <2>1, StartAdoptStep, PrepareStep, StageStep, SetAsideStep, ReplaceStep
  <2>2. CASE WriteReceipt(p)
    BY <2>2, WriteReceiptStep
  <2>3. CASE RemoveArtifact(p) \/ Finish(p) \/ UndoFinish(p) \/ Abandon(p)
    BY <2>3, RemoveArtifactStep, FinishStep, CrashStep
  <2>4. CASE ApplyFails(p) \/ UndoRemove(p) \/ UndoPutBack(p)
    BY <2>4, ApplyFailsStep, UndoRemoveStep, UndoPutBackStep
  <2> QED BY <1>2, <2>1, <2>2, <2>3, <2>4 DEF Apply
<1>3. ASSUME NEW p \in Procs, Recover(p)
      PROVE  AdoptInv' /\ UNCHANGED <<Settled, receipts>>
  <2>1. CASE StartRecover(p) \/ Restored(p) \/ RestoreFails(p)
    BY <2>1, StartRecoverStep, RestoreTurns
  <2>2. CASE RestoreAside(p) \/ RestorePlace(p) \/ Unrestore(p)
    BY <2>2, RestoreAsideStep, RestorePlaceStep, UnrestoreStep
  <2> QED BY <1>3, <2>1, <2>2 DEF Recover
<1>4. ASSUME NEW p \in Procs, Rollback(p)
      PROVE  AdoptInv' /\ (Atomic!Undo \/ UNCHANGED <<Settled, receipts>>)
  <2>1. CASE RolledBack(p)
    BY <2>1, RolledBackStep
  <2>2. CASE StartRollback(p) \/ RollBackFile(p)
    BY <2>2, StartRollbackStep, RollBackFileStep
  <2>3. CASE RollbackFails(p) \/ Reinstall(p) \/ Reinstalled(p)
    BY <2>3, RollbackFailsStep, ReinstallStep, FinishStep
  <2> QED BY <1>4, <2>1, <2>2, <2>3 DEF Rollback
<1>5. ASSUME NEW p \in Procs, Locking(p) \/ Crash(p) \/ CrashInHeader(p)
      PROVE  AdoptInv' /\ UNCHANGED <<Settled, receipts>>
  BY <1>5, LockingStep, CrashStep, CrashInHeaderStep
<1>6. CASE \E p \in Procs : Work(p)
  <2>1. PICK p \in Procs : Work(p)
    BY <1>6
  <2> QED BY <1>1, <1>2, <1>3, <1>4, <1>5, <2>1 DEF Work, Atomic!Next
<1>7. CASE Around
  <2>1. CASE Upgrade
    BY <2>1, Untouched DEF Upgrade, files, records, lockVars
  <2> QED BY <1>7, <2>1, AuthorEditsStep DEF Around, Atomic!Next
<1>8. CASE UNCHANGED vars
  BY <1>8, Untouched DEF vars, body, files, records, world, lockVars
<1> QED BY <1>6, <1>7, <1>8 DEF Next

\* Both invariants, of the lock and of the transactions.
LEMMA AdoptInvHolds == Spec => [](AdoptInv /\ LockInv)
<1>1. Init => AdoptInv /\ LockInv
  BY AdoptStarts, LockStarts DEF Init
<1>2. AdoptInv /\ LockInv /\ [Next]_vars => (AdoptInv /\ LockInv)'
  <2>1. AdoptInv /\ LockInv /\ [Next]_vars => AdoptInv'
    BY AdoptKept
  <2>2. LockInv /\ [Next]_vars => LockInv'
    BY NextLocks, LockKept
  <2> QED BY <2>1, <2>2
<1> QED BY <1>1, <1>2, PTL DEF Spec

\* No crash, failed handler or failed recovery leaves a file in a state that
\* recoverAdoption or rollbackAdoption refuses, however many processes, files,
\* adoptions and deaths there are: only an author's edit does.
THEOREM RecoveryIsAccepted == Spec => []RecoveryAccepted
<1>1. AdoptInv => RecoveryAccepted
  BY DEF AdoptInv, AcceptedInv, Fine, RecoveryAccepted
<1> QED BY <1>1, AdoptInvHolds, PTL

\* applyAdoption, rollbackAdoption and recoverAdoption implement whole
\* adoptions: whatever fails or dies, the project a finished transaction
\* leaves changes by whole plans made for its files, and back.
THEOREM AdoptionIsAtomic == Spec => AllOrNothing
<1>1. AdoptInv /\ LockInv /\ [Next]_vars => [Atomic!Next]_<<Settled, receipts>>
  BY AdoptKept
<1> QED BY <1>1, AdoptInvHolds, PTL DEF Spec, AllOrNothing

=============================================================================
