---------------------------- MODULE MatchProofs ----------------------------
(***************************************************************************)
(* Proofs about Match: the matching is one-to-one and its reasons are      *)
(* true, for any relays and any SCD.                                       *)
(***************************************************************************)
EXTENDS Match, TLAPS

\* A relay reported had each of its IEDs taken by a relay before it; where it
\* is said to be taken, there is one.
ReportedInv ==
  \A r \in DOMAIN unmatched :
    /\ \A i \in ByIp(r) \cup ByName(r) : \E m \in matched : m.scd = i /\ m.rdb < r
    /\ unmatched[r] = {"taken"} => ByIp(r) \cup ByName(r) /= {}
LoopInv == at \in 1..(Relay + 2) /\ (~Done => left = {})
MatchInv == OneToOne /\ ReportedInv /\ LoopInv

LEMMA InitMatchInv == Init => MatchInv
  <1> SUFFICES ASSUME Init PROVE MatchInv
    OBVIOUS
  <1>1. Relay \in Nat
    BY MatchAssumption
  <1>2. OneToOne
    BY <1>1 DEF Init, OneToOne, Done
  <1> QED
    BY <1>1, <1>2 DEF Init, MatchInv, ReportedInv, LoopInv

\* The relay the loop is at is given an IED nobody has.
LEMMA GiveMatchInv ==
  ASSUME MatchInv, at <= Relay, NEW i, i \notin Used, NEW by, Give(at, i, by)
  PROVE  MatchInv'
  <1>1. Relay \in Nat /\ at \in 1..Relay /\ ~Done /\ left = {}
    BY MatchAssumption DEF MatchInv, LoopInv, Done
  <1>2. PICK new : /\ new.rdb = at /\ new.scd = i
                   /\ matched' = matched \cup {new}
    BY DEF Give
  <1>3. at' = at + 1 /\ rdb' = rdb /\ scd' = scd /\ unmatched' = unmatched /\ left' = left
    BY DEF Give
  <1>4. \A m \in matched : m.rdb \in 1..Relay /\ m.rdb < at /\ m.scd /= i
    BY DEF MatchInv, OneToOne, Used
  <1>5. at \notin DOMAIN unmatched
    BY <1>1 DEF MatchInv, OneToOne
  <1>6. {m.rdb : m \in matched'} = {m.rdb : m \in matched} \cup {at}
    BY <1>2
  <1>7. {r \in 1..Relay : r < at + 1} = {r \in 1..Relay : r < at} \cup {at}
    BY <1>1
  <1>8. \A m, n \in matched' : m.rdb = n.rdb \/ m.scd = n.scd => m = n
    BY <1>1, <1>2, <1>4 DEF MatchInv, OneToOne
  <1>9. /\ {m.rdb : m \in matched'} \cap DOMAIN unmatched' = {}
        /\ {m.rdb : m \in matched'} \cup DOMAIN unmatched' = {r \in 1..Relay : r < at'}
    <2>1. /\ {m.rdb : m \in matched} \cap DOMAIN unmatched = {}
          /\ {m.rdb : m \in matched} \cup DOMAIN unmatched = {r \in 1..Relay : r < at}
      BY DEF MatchInv, OneToOne
    <2> DEFINE given == {m.rdb : m \in matched}
    <2>2. {m.rdb : m \in matched'} = given \cup {at}
      BY <1>6
    <2>3. given \cap DOMAIN unmatched = {}
          /\ given \cup DOMAIN unmatched = {r \in 1..Relay : r < at}
      BY <2>1
    <2> HIDE DEF given
    <2>4. {m.rdb : m \in matched'} \cap DOMAIN unmatched' = {}
      BY <1>3, <1>5, <2>2, <2>3
    <2>5. {r \in 1..Relay : r < at'} = {r \in 1..Relay : r < at} \cup {at}
      BY <1>3, <1>7
    <2> QED
      BY <1>3, <2>2, <2>3, <2>4, <2>5
  <1>10. LoopInv' /\ ~Done'
    BY <1>1, <1>3 DEF LoopInv, Done
  <1>11. OneToOne'
    BY <1>8, <1>9, <1>10 DEF OneToOne
  <1>12. \A r : ByIp(r)' = ByIp(r) /\ ByName(r)' = ByName(r)
    BY <1>3 DEF ByIp, ByName, WithIp, WithName
  <1>13. ReportedInv'
    BY <1>2, <1>3, <1>12 DEF MatchInv, ReportedInv
  <1> QED
    BY <1>10, <1>11, <1>13 DEF MatchInv

\* The relay the loop is at has no free IED, and is reported.
LEMMA ReportMatchInv ==
  ASSUME MatchInv, at <= Relay, NEW reasons, Report(reasons),
         ByIp(at) \cup ByName(at) \subseteq Used,
         reasons = {"taken"} => ByIp(at) \cup ByName(at) /= {}
  PROVE  MatchInv'
  <1>1. Relay \in Nat /\ at \in 1..Relay /\ ~Done /\ left = {}
    BY MatchAssumption DEF MatchInv, LoopInv, Done
  <1>2. /\ at' = at + 1 /\ rdb' = rdb /\ scd' = scd /\ matched' = matched /\ left' = left
        /\ DOMAIN unmatched' = DOMAIN unmatched \cup {at}
        /\ unmatched'[at] = reasons
        /\ \A r \in DOMAIN unmatched : r /= at => unmatched'[r] = unmatched[r]
    BY DEF Report
  <1>3. \A m \in matched : m.rdb \in 1..Relay /\ m.rdb < at
    BY DEF MatchInv, OneToOne
  <1>4. at \notin DOMAIN unmatched
    BY <1>1 DEF MatchInv, OneToOne
  <1>5. {r \in 1..Relay : r < at + 1} = {r \in 1..Relay : r < at} \cup {at}
    BY <1>1
  <1>6. /\ {m.rdb : m \in matched'} \cap DOMAIN unmatched' = {}
        /\ {m.rdb : m \in matched'} \cup DOMAIN unmatched' = {r \in 1..Relay : r < at'}
    BY <1>1, <1>2, <1>3, <1>5 DEF MatchInv, OneToOne
  <1>7. LoopInv' /\ ~Done'
    BY <1>1, <1>2 DEF LoopInv, Done
  <1>8. OneToOne'
    BY <1>2, <1>6, <1>7 DEF MatchInv, OneToOne
  <1>9. \A r : ByIp(r)' = ByIp(r) /\ ByName(r)' = ByName(r)
    BY <1>2 DEF ByIp, ByName, WithIp, WithName
  <1>10. \A i \in ByIp(at) \cup ByName(at) : \E m \in matched : m.scd = i /\ m.rdb < at
    BY <1>3 DEF Used
  <1>11. ReportedInv'
    BY <1>2, <1>4, <1>9, <1>10 DEF MatchInv, ReportedInv
  <1> QED
    BY <1>7, <1>8, <1>11 DEF MatchInv

LEMMA NextMatchInv == MatchInv /\ [Next]_vars => MatchInv'
  <1> SUFFICES ASSUME MatchInv, [Next]_vars PROVE MatchInv'
    OBVIOUS
  <1>1. CASE MatchByIp
    BY <1>1, GiveMatchInv DEF MatchByIp, FreeByIp
  <1>2. CASE MatchByRid
    BY <1>2, GiveMatchInv DEF MatchByRid, FreeByName
  <1>3. CASE NoMatch
    <2>1. ByIp(at) \cup ByName(at) \subseteq Used
      BY <1>3 DEF NoMatch, FreeByIp, FreeByName
    <2>2. Reasons(at) = {"taken"} => ByIp(at) \cup ByName(at) /= {}
      <3> SUFFICES ASSUME ByIp(at) = {}, ByName(at) = {} PROVE Reasons(at) /= {"taken"}
        OBVIOUS
      <3>1. CASE rdb[at].ip = None /\ rdb[at].rid = None
        BY <3>1 DEF Reasons
      <3>2. CASE rdb[at].ip /= None
        BY <3>2 DEF Reasons
      <3>3. CASE rdb[at].rid /= None
        BY <3>3 DEF Reasons
      <3> QED
        BY <3>1, <3>2, <3>3
    <2> QED
      BY <1>3, <2>1, <2>2, ReportMatchInv DEF NoMatch
  <1>4. CASE EmptyScd
    <2>1. ByIp(at) = {} /\ ByName(at) = {}
      BY <1>4 DEF EmptyScd, ByIp, ByName, WithIp, WithName
    <2>2. {"empty scd"} /= {"taken"}
      OBVIOUS
    <2> QED
      BY <1>4, <2>1, <2>2, ReportMatchInv DEF EmptyScd
  <1>5. CASE ReportIeds
    <2>1. /\ Relay \in Nat /\ at = Relay + 1 /\ at' = Relay + 2 /\ Done'
          /\ rdb' = rdb /\ scd' = scd /\ matched' = matched /\ unmatched' = unmatched
          /\ left' = DOMAIN scd \ Used
      BY <1>5, MatchAssumption DEF ReportIeds, Done
    <2>2. {r \in 1..Relay : r < at'} = {r \in 1..Relay : r < at}
      BY <2>1
    <2>3. OneToOne'
      BY <2>1, <2>2 DEF MatchInv, OneToOne, Used
    <2>4. \A r : ByIp(r)' = ByIp(r) /\ ByName(r)' = ByName(r)
      BY <2>1 DEF ByIp, ByName, WithIp, WithName
    <2>5. ReportedInv'
      BY <2>1, <2>4 DEF MatchInv, ReportedInv
    <2>6. LoopInv'
      BY <2>1 DEF LoopInv
    <2> QED
      BY <2>3, <2>5, <2>6 DEF MatchInv
  <1>6. CASE UNCHANGED vars
    <2>1. /\ at' = at /\ rdb' = rdb /\ scd' = scd /\ matched' = matched
          /\ unmatched' = unmatched /\ left' = left
      BY <1>6 DEF vars
    <2>2. OneToOne'
      BY <2>1 DEF MatchInv, OneToOne, Done
    <2>3. \A r : ByIp(r)' = ByIp(r) /\ ByName(r)' = ByName(r)
      BY <2>1 DEF ByIp, ByName, WithIp, WithName
    <2>4. ReportedInv'
      BY <2>1, <2>3 DEF MatchInv, ReportedInv
    <2>5. LoopInv'
      BY <2>1 DEF MatchInv, LoopInv, Done
    <2> QED
      BY <2>2, <2>4, <2>5 DEF MatchInv
  <1> QED
    BY <1>1, <1>2, <1>3, <1>4, <1>5, <1>6 DEF Next, Returned

-----------------------------------------------------------------------------
\* No relay and no IED is in two matches, none is lost, whatever identifiers
\* are missing, repeated or shared.
THEOREM MatchingIsOneToOne == Spec => []OneToOne
  <1>1. MatchInv => OneToOne
    BY DEF MatchInv
  <1> QED
    BY <1>1, InitMatchInv, NextMatchInv, PTL DEF Spec

\* What the report says of an unmatched relay stays true to the end of it.
THEOREM ReasonsAreTrue == Spec => []NothingLeftBehind
  <1>1. MatchInv => NothingLeftBehind
    <2> SUFFICES ASSUME MatchInv, NEW r \in DOMAIN unmatched
                 PROVE  /\ (ByIp(r) \cup ByName(r)) \cap left = {}
                        /\ unmatched[r] = {"taken"} =>
                             /\ ByIp(r) \cup ByName(r) /= {}
                             /\ \A i \in ByIp(r) \cup ByName(r) :
                                  \E m \in matched : m.scd = i /\ m.rdb /= r /\ m.rdb < r
      BY DEF NothingLeftBehind
    <2>1. \A i \in ByIp(r) \cup ByName(r) : \E m \in matched : m.scd = i /\ m.rdb < r
      BY DEF MatchInv, ReportedInv
    <2>2. \A m \in matched : m.rdb \in Nat /\ m.scd \notin left
      BY DEF MatchInv, OneToOne, LoopInv
    <2>3. r \in Nat
      BY DEF MatchInv, OneToOne
    <2> QED
      BY <2>1, <2>2, <2>3 DEF MatchInv, ReportedInv
  <1> QED
    BY <1>1, InitMatchInv, NextMatchInv, PTL DEF Spec

-----------------------------------------------------------------------------
(* Who went before whom *)

\* Of the relays behind the loop each had the IED of its address by that
\* address, or a relay before it had it.
AddressInv ==
  \A r \in 1..Relay : r < at =>
    \A i \in ByIp(r) : \E m \in matched :
      m.scd = i /\ (m.rdb < r \/ (m.rdb = r /\ m.by = "ip"))

LEMMA IndexesStay ==
  ASSUME rdb' = rdb, scd' = scd
  PROVE  /\ \A r : ByIp(r)' = ByIp(r)
         /\ \A r : ByName(r)' = ByName(r)
  BY DEF ByIp, ByName, WithIp, WithName

\* An address leads to one IED at most.
LEMMA OneByIp ==
  ASSUME NEW r, NEW i \in ByIp(r), NEW j \in ByIp(r)
  PROVE  i = j
  BY DEF ByIp

LEMMA NextAddressInv == MatchInv /\ AddressInv /\ [Next]_vars => AddressInv'
  <1> SUFFICES ASSUME MatchInv, AddressInv, [Next]_vars PROVE AddressInv'
    OBVIOUS
  <1>0. Relay \in Nat /\ at \in 1..(Relay + 2) /\ \A m \in matched : m.rdb < at
    BY MatchAssumption DEF MatchInv, LoopInv, OneToOne
  <1>1. ASSUME at <= Relay, rdb' = rdb, scd' = scd, at' = at + 1, matched \subseteq matched',
               \A i \in ByIp(at) : \E m \in matched' : m.scd = i /\ (m.rdb < at \/ (m.rdb = at /\ m.by = "ip"))
        PROVE  AddressInv'
    <2> SUFFICES ASSUME NEW r \in 1..Relay, r < at + 1, NEW i \in ByIp(r)
                 PROVE  \E m \in matched' : m.scd = i /\ (m.rdb < r \/ (m.rdb = r /\ m.by = "ip"))
      BY <1>1, IndexesStay DEF AddressInv
    <2>1. CASE r = at
      BY <1>1, <2>1
    <2>2. CASE r < at
      BY <1>1, <2>2 DEF AddressInv
    <2> QED
      BY <1>0, <2>1, <2>2
  <1>2. CASE MatchByIp
    <2>1. PICK i \in FreeByIp(at) : Give(at, i, "ip")
      BY <1>2 DEF MatchByIp
    <2>2. [rdb |-> at, scd |-> i, by |-> "ip"] \in matched' /\ i \in ByIp(at)
      BY <2>1 DEF Give, FreeByIp
    <2> QED
      BY <1>1, <1>2, <2>1, <2>2, OneByIp DEF MatchByIp, Give
  <1>3. ASSUME FreeByIp(at) = {}
        PROVE  \A i \in ByIp(at) : \E m \in matched : m.scd = i /\ m.rdb < at
    BY <1>0, <1>3 DEF FreeByIp, Used
  <1>4. CASE MatchByRid
    <2>1. /\ FreeByIp(at) = {} /\ at <= Relay /\ rdb' = rdb /\ scd' = scd /\ at' = at + 1
          /\ matched \subseteq matched'
      BY <1>4 DEF MatchByRid, Give
    <2>2. \A i \in ByIp(at) : \E m \in matched' : m.scd = i /\ (m.rdb < at \/ (m.rdb = at /\ m.by = "ip"))
      BY <1>3, <2>1
    <2> QED
      BY <1>1, <2>1, <2>2
  <1>5. CASE NoMatch
    <2>1. /\ FreeByIp(at) = {} /\ at <= Relay /\ rdb' = rdb /\ scd' = scd /\ at' = at + 1
          /\ matched' = matched
      BY <1>5 DEF NoMatch, Report
    <2>2. \A i \in ByIp(at) : \E m \in matched' : m.scd = i /\ (m.rdb < at \/ (m.rdb = at /\ m.by = "ip"))
      BY <1>3, <2>1
    <2> QED
      BY <1>1, <2>1, <2>2
  <1>6. CASE EmptyScd
    <2>1. ByIp(at) = {}
      BY <1>6 DEF EmptyScd, ByIp, WithIp
    <2> QED
      BY <1>1, <1>6, <2>1 DEF EmptyScd, Report
  <1>7. CASE ReportIeds \/ UNCHANGED vars
    <2>1. /\ rdb' = rdb /\ scd' = scd /\ matched' = matched
          /\ \A r \in 1..Relay : r < at' => r < at
      BY <1>0, <1>7 DEF ReportIeds, vars
    <2> QED
      BY <2>1, IndexesStay DEF AddressInv
  <1> QED
    BY <1>2, <1>4, <1>5, <1>6, <1>7 DEF Next, Returned

\* An address outranks a name: the IED of a relay's address goes by RID only
\* to a relay before it.
THEOREM AddressBeforeName == Spec => []AddressLostToName
  <1>1. Init => AddressInv
    BY DEF Init, AddressInv
  <1>2. MatchInv /\ AddressInv => AddressLostToName
    <2> SUFFICES ASSUME MatchInv, AddressInv, Done, NEW m \in matched, NEW r \in 1..Relay,
                        m.by = "rid", m.scd \in ByIp(r)
                 PROVE  m.rdb < r
      BY DEF AddressLostToName
    <2>1. PICK n \in matched : n.scd = m.scd /\ (n.rdb < r \/ (n.rdb = r /\ n.by = "ip"))
      BY MatchAssumption DEF AddressInv, Done
    <2>2. n = m
      BY <2>1 DEF MatchInv, OneToOne
    <2> QED
      BY <2>1, <2>2
  <1> QED
    BY <1>1, <1>2, InitMatchInv, NextMatchInv, NextAddressInv, PTL DEF Spec

\* The IED a relay has for itself: that of its address, or else of its RID.
Own(r) == IF ByIp(r) /= {} THEN ByIp(r) ELSE ByName(r)
ExactInv ==
  Unambiguous =>
    /\ \A m \in matched : m.scd \in Own(m.rdb)
    /\ \A r \in 1..Relay : r < at => \A i \in Own(r) : \E m \in matched : m.rdb = r /\ m.scd = i

LEMMA OwnIsOne ==
  ASSUME NEW r, NEW i \in Own(r), NEW j \in Own(r)
  PROVE  i = j
  BY DEF Own, ByIp, ByName

LEMMA NextExactInv == MatchInv /\ ExactInv /\ [Next]_vars => ExactInv'
  <1> SUFFICES ASSUME MatchInv, ExactInv, [Next]_vars, Unambiguous' PROVE ExactInv'
    BY DEF ExactInv
  <1>0. /\ Relay \in Nat /\ at \in 1..(Relay + 2)
        /\ \A m \in matched : m.rdb \in 1..Relay /\ m.rdb < at
    BY MatchAssumption DEF MatchInv, LoopInv, OneToOne
  <1>1. rdb' = rdb /\ scd' = scd
    BY DEF Next, MatchByIp, MatchByRid, NoMatch, EmptyScd, ReportIeds, Returned, Give, Report, vars
  <1>2. /\ \A r : ByIp(r)' = ByIp(r) /\ ByName(r)' = ByName(r) /\ Own(r)' = Own(r)
        /\ Unambiguous
    BY <1>1, IndexesStay DEF Own, Unambiguous, Claims
  <1>3. \A m \in matched : m.scd \in Own(m.rdb)
    BY <1>2 DEF ExactInv
  <1>4. at <= Relay => Claims(at) \cap Used = {}
    <2> SUFFICES ASSUME at <= Relay, NEW m \in matched, m.scd \in Claims(at) PROVE FALSE
      BY DEF Used
    <2>1. m.scd \in Claims(m.rdb) /\ m.rdb \in 1..Relay /\ m.rdb /= at
      BY <1>0, <1>3 DEF Own, Claims
    <2> QED
      BY <1>0, <1>2, <2>1 DEF Unambiguous
  <1>5. ASSUME at <= Relay, NEW i \in Own(at), NEW by, Give(at, i, by) PROVE ExactInv'
    <2>1. /\ matched' = matched \cup {[rdb |-> at, scd |-> i, by |-> by]} /\ at' = at + 1
      BY <1>5 DEF Give
    <2>2. \A m \in matched' : m.scd \in Own(m.rdb)
      BY <1>3, <1>5, <2>1
    <2>3. ASSUME NEW r \in 1..Relay, r < at + 1, NEW j \in Own(r)
          PROVE  \E m \in matched' : m.rdb = r /\ m.scd = j
      <3>1. CASE r = at
        <4> DEFINE new == [rdb |-> at, scd |-> i, by |-> by]
        <4>0. new.rdb = at /\ new.scd = i /\ new \in matched'
          BY <2>1
        <4> HIDE DEF new
        <4>1. PICK m \in matched' : m.rdb = at /\ m.scd = i
          BY <4>0
        <4>2. j = i
          BY <1>5, <2>3, <3>1, OwnIsOne
        <4> QED
          BY <3>1, <4>1, <4>2
      <3>2. CASE r < at
        BY <1>2, <2>1, <2>3, <3>2 DEF ExactInv
      <3> QED
        BY <1>0, <2>3, <3>1, <3>2
    <2> QED
      BY <1>2, <2>1, <2>2, <2>3 DEF ExactInv
  <1>6. ASSUME at <= Relay, Own(at) = {}, matched' = matched, at' = at + 1 PROVE ExactInv'
    <2>1. \A r \in 1..Relay : r < at + 1 => \A i \in Own(r) : r < at
      BY <1>0, <1>6
    <2> QED
      BY <1>2, <1>6, <2>1 DEF ExactInv
  <1>7. CASE MatchByIp
    BY <1>5, <1>7 DEF MatchByIp, FreeByIp, Own
  <1>8. CASE MatchByRid
    <2>1. ByIp(at) = {}
      BY <1>4, <1>8 DEF MatchByRid, FreeByIp, Claims
    <2> QED
      BY <1>5, <1>8, <2>1 DEF MatchByRid, FreeByName, Own
  <1>9. CASE NoMatch
    <2>1. Own(at) = {}
      BY <1>4, <1>9 DEF NoMatch, FreeByIp, FreeByName, Claims, Own
    <2> QED
      BY <1>6, <1>9, <2>1 DEF NoMatch, Report
  <1>10. CASE EmptyScd
    <2>1. Own(at) = {}
      BY <1>10 DEF EmptyScd, Own, ByIp, ByName, WithIp, WithName
    <2> QED
      BY <1>6, <1>10, <2>1 DEF EmptyScd, Report
  <1>11. CASE ReportIeds \/ UNCHANGED vars
    <2>1. /\ matched' = matched /\ \A r \in 1..Relay : r < at' => r < at
      BY <1>0, <1>11 DEF ReportIeds, vars
    <2> QED
      BY <1>2, <2>1 DEF ExactInv
  <1> QED
    BY <1>7, <1>8, <1>9, <1>10, <1>11 DEF Next, Returned

\* Where no two relays claim one IED, the order of the relays decides nothing.
THEOREM UnambiguousMatchIsExact == Spec => []UnambiguousIsExact
  <1>1. Init => ExactInv
    BY DEF Init, ExactInv
  <1>2. MatchInv /\ ExactInv => UnambiguousIsExact
    <2> SUFFICES ASSUME MatchInv, ExactInv, Done, Unambiguous, NEW r \in 1..Relay, NEW i \in DOMAIN scd
                 PROVE  (\E m \in matched : m.rdb = r /\ m.scd = i) <=> i \in Own(r)
      BY DEF UnambiguousIsExact, Own
    <2>1. r < at
      BY MatchAssumption DEF Done
    <2> QED
      BY <2>1 DEF ExactInv
  <1> QED
    BY <1>1, <1>2, InitMatchInv, NextMatchInv, NextExactInv, PTL DEF Spec
=============================================================================
