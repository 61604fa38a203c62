------------------------------- MODULE Match -------------------------------
(***************************************************************************)
(* match.compare_relays_to_scd: the relays of an RDB, in the order of the  *)
(* file, each given the IED of the SCD that has its address, or else the   *)
(* one that has its RID for a name.  An IED is given once.  Relays and     *)
(* IEDs are numbered in the order of their files.                          *)
(***************************************************************************)
EXTENDS Naturals, FiniteSets

CONSTANTS
  Relay,     \* number of relays
  MaxIeds,   \* bound: IEDs of the SCD
  Ip, Name,  \* addresses; names as they are spelled
  Upper,     \* Upper[n]: one name for all that differ from it in case
  None

Identifiers == [ip : Ip \cup {None}, rid : Name \cup {None}]
Ieds(n) == {f \in [1..n -> [name : Name, ip : Ip \cup {None}]] :
              \A i, j \in 1..n : f[i].name = f[j].name => i = j}

ASSUME MatchAssumption ==
  /\ Relay \in Nat /\ MaxIeds \in Nat
  /\ None \notin Ip \cup Name
  /\ Upper \in [Name -> Name]

VARIABLES
  rdb,        \* rdb_ids: what each relay says of itself
  scd,        \* ieds: names are the keys of a dict, and differ
  at,         \* the relay the loop is at
  matched,    \* report.matched: [rdb, scd, by] records
  unmatched,  \* report.unmatched_rdb: relay to reason
  left        \* report.unmatched_scd, once the loop has ended
vars == <<rdb, scd, at, matched, unmatched, left>>

-----------------------------------------------------------------------------
First(S) == CHOOSE i \in S : \A j \in S : i <= j
Last(S) == CHOOSE i \in S : \A j \in S : j <= i

\* _index_by_ip: the first IED of an address; _index_by_name: the last of a name.
WithIp(ip) == {i \in DOMAIN scd : ip /= None /\ scd[i].ip = ip}
WithName(n) == {i \in DOMAIN scd : n /= None /\ Upper[scd[i].name] = Upper[n]}

\* What the two indexes have for relay r: an IED or nothing, as a set.
ByIp(r) == IF WithIp(rdb[r].ip) = {} THEN {} ELSE {First(WithIp(rdb[r].ip))}
ByName(r) == IF WithName(rdb[r].rid) = {} THEN {} ELSE {Last(WithName(rdb[r].rid))}

Used == {m.scd : m \in matched}
\* Mutants: used_scd_names asked of the RID only; the RID only of a relay that
\* has no address.
FreeByAnyIp(r) == ByIp(r)
FreeByNameAlone(r) == IF rdb[r].ip = None THEN ByName(r) \ Used ELSE {}

FreeByIp(r) == ByIp(r) \ Used
FreeByName(r) == ByName(r) \ Used

\* _no_match_reason; "taken" when both identifiers lead to an IED, or one does.
Reasons(r) ==
  IF rdb[r].ip = None /\ rdb[r].rid = None THEN {"no identifiers"}
  ELSE LET bits == {w \in {"no such ip", "no such rid"} :
                      \/ w = "no such ip" /\ rdb[r].ip /= None /\ ByIp(r) = {}
                      \/ w = "no such rid" /\ rdb[r].rid /= None /\ ByName(r) = {}}
       IN  IF bits = {} THEN {"taken"} ELSE bits

Init ==
  /\ rdb \in [1..Relay -> Identifiers]
  /\ \E n \in 0..MaxIeds : scd \in Ieds(n)
  /\ at = 1
  /\ matched = {}
  /\ unmatched = [r \in {} |-> {}]
  /\ left = {}

Give(r, i, by) ==
  /\ matched' = matched \cup {[rdb |-> r, scd |-> i, by |-> by]}
  /\ at' = at + 1
  /\ UNCHANGED <<rdb, scd, unmatched, left>>
Report(reasons) ==
  /\ unmatched' = [r \in DOMAIN unmatched \cup {at} |->
                     IF r = at THEN reasons ELSE unmatched[r]]
  /\ at' = at + 1
  /\ UNCHANGED <<rdb, scd, matched, left>>

MatchByIp ==
  /\ at <= Relay /\ DOMAIN scd /= {}
  /\ \E i \in FreeByIp(at) : Give(at, i, "ip")

\* Mutant: the RID without a look at the address.
MatchByRidFirst ==
  /\ at <= Relay /\ DOMAIN scd /= {}
  /\ \E i \in FreeByName(at) : Give(at, i, "rid")

MatchByRid ==
  /\ at <= Relay /\ DOMAIN scd /= {}
  /\ FreeByIp(at) = {}
  /\ \E i \in FreeByName(at) : Give(at, i, "rid")

\* Mutant: no second try for a relay whose IED is taken.
NoMatchByIp ==
  /\ at <= Relay /\ DOMAIN scd /= {}
  /\ FreeByIp(at) = {}
  /\ Report(Reasons(at))

NoMatch ==
  /\ at <= Relay /\ DOMAIN scd /= {}
  /\ FreeByIp(at) = {} /\ FreeByName(at) = {}
  /\ Report(Reasons(at))

\* An SCD that is empty or cannot be read: every relay is reported.
EmptyScd ==
  /\ at <= Relay /\ DOMAIN scd = {}
  /\ Report({"empty scd"})

\* The second loop: the IEDs that nobody was given.
ReportIeds ==
  /\ at = Relay + 1
  /\ left' = DOMAIN scd \ Used
  /\ at' = at + 1
  /\ UNCHANGED <<rdb, scd, matched, unmatched>>

Done == at = Relay + 2
Returned == Done /\ UNCHANGED vars

Next == MatchByIp \/ MatchByRid \/ NoMatch \/ EmptyScd \/ ReportIeds \/ Returned
Spec == Init /\ [][Next]_vars

-----------------------------------------------------------------------------
(* Properties *)

\* Types of the variables.
MatchTypeOK ==
  /\ rdb \in [1..Relay -> Identifiers]
  /\ \E n \in 0..MaxIeds : scd \in Ieds(n)
  /\ at \in 1..(Relay + 2)
  /\ matched \in SUBSET [rdb : 1..Relay, scd : DOMAIN scd, by : {"ip", "rid"}]
  /\ DOMAIN unmatched \subseteq 1..Relay
  /\ left \subseteq DOMAIN scd

\* "The match is one-to-one", and nothing is lost: each relay behind the loop
\* is matched once or reported, each IED is matched once or, at the end, left.
OneToOne ==
  /\ \A m, n \in matched : m.rdb = n.rdb \/ m.scd = n.scd => m = n
  /\ {m.rdb : m \in matched} \cap DOMAIN unmatched = {}
  /\ {m.rdb : m \in matched} \cup DOMAIN unmatched = {r \in 1..Relay : r < at}
  /\ Done => left = DOMAIN scd \ {m.scd : m \in matched}

\* The reason given for a relay is true at the end, not only when the loop was
\* there: "taken" means that each IED it leads to went to another relay, and no
\* IED that its address or RID leads to is left over.
NothingLeftBehind ==
  \A r \in DOMAIN unmatched :
    /\ (ByIp(r) \cup ByName(r)) \cap left = {}
    /\ unmatched[r] = {"taken"} =>
         /\ ByIp(r) \cup ByName(r) /= {}
         /\ \A i \in ByIp(r) \cup ByName(r) :
              \E m \in matched : m.scd = i /\ m.rdb /= r /\ m.rdb < r

\* Where the identifiers lead to IEDs without two relays claiming one, the
\* order of the relays does not matter: each has the IED of its address, or
\* for want of one that of its RID.
Claims(r) == ByIp(r) \cup ByName(r)
Unambiguous ==
  \A r, s \in 1..Relay : r /= s => Claims(r) \cap Claims(s) = {}
UnambiguousIsExact ==
  Done /\ Unambiguous =>
    \A r \in 1..Relay : \A i \in DOMAIN scd :
      (\E m \in matched : m.rdb = r /\ m.scd = i)
        <=> i \in (IF ByIp(r) /= {} THEN ByIp(r) ELSE ByName(r))

\* An address outranks a name only until a relay before it has taken the IED
\* by name: the one way for the IED of an address to go by RID.
AddressLostToName ==
  Done =>
    \A m \in matched : \A r \in 1..Relay :
      m.by = "rid" /\ m.scd \in ByIp(r) => m.rdb < r
=============================================================================
