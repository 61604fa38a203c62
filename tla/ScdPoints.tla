----------------------------- MODULE ScdPoints -----------------------------
(***************************************************************************)
(* scl/read.py: what an SCD says of its relays -- where each Relay Word    *)
(* bit is addressed, which bit takes the health of each GOOSE subscription *)
(* and the subscriptions themselves.  A document is a function from the    *)
(* name of an IED to its attributes (the model's walk, in order), the      *)
(* GooseSubscription elements of its private block, and its ExtRefs; an    *)
(* IED that does not resolve has the last two in NoIed's place.            *)
(***************************************************************************)
EXTENDS ShortAddress

CONSTANTS NoKey,       \* source_key of a template ExtRef
          NoBit        \* pubRxStatus absent or blank

-----------------------------------------------------------------------------
(* sel_short_addresses *)

\* Mutant: the first address of a bit stays.
TakeFirst(bits, bit, point) == IF bit \in DOMAIN bits THEN bits ELSE With(bits, bit, point)

\* The point of a bit is replaced by one of a lower rank only.
TakeBetter(bits, bit, point) ==
  IF bit \in DOMAIN bits /\ point.rank >= bits[bit].rank THEN bits ELSE With(bits, bit, point)

\* The points of one attribute: each name with the rule for its own bit.
Offer(bits, attrs, a) ==
  LET attr == attrs[a]
      spec == ParseSaddr(attr.s_addr)
      rank == DaRank(attr.da, IsDecorated(spec))
      Point(i) == [at |-> a, rank |-> rank, rule |-> RuleFor(spec, i - 1)]
  IN  FoldLeft(LAMBDA b, i : TakeBetter(b, spec.names[i], Point(i)),
               bits, [i \in DOMAIN spec.names |-> i])
\* _points_of.
PointsOf(attrs) ==
  FoldLeft(LAMBDA bits, a : Offer(bits, attrs, a), Empty, [a \in DOMAIN attrs |-> a])
SelShortAddresses(doc) ==
  [ied \in DOMAIN doc |-> IF doc[ied].resolves THEN PointsOf(doc[ied].attrs) ELSE Empty]

-----------------------------------------------------------------------------
(* sel_goose_rx_status and sel_goose_subscriptions *)

\* Mutant: a bit declared again is taken from the later declaration.
DeclareLast(bits, sub) ==
  IF sub.bit = NoBit THEN bits
  ELSE Append(SelectSeq(bits, LAMBDA s : s.bit /= sub.bit), sub)

\* bits keeps the order of the declarations, as the dictionary does.
Declare(bits, sub) ==
  IF sub.bit = NoBit \/ \E i \in DOMAIN bits : bits[i].bit = sub.bit THEN bits
  ELSE Append(bits, sub)
RxStatusOf(ied) == FoldLeft(Declare, <<>>, ied.private)
SelGooseRxStatus(doc) ==
  [ied \in {n \in DOMAIN doc : RxStatusOf(doc[n]) /= <<>>} |-> RxStatusOf(doc[ied])]

\* rx_by_cb: of two bits for one control block the later.
RxByCb(rx) ==
  LET Of(key) == {i \in DOMAIN rx : rx[i].key = key}
  IN  [key \in {rx[i].key : i \in DOMAIN rx} |-> rx[Max(Of(key))].bit]
Subscribe(subs, ext, rx_by_cb) ==
  IF \/ ext.service_type /= "GOOSE"
     \/ ext.source_key = NoKey
     \/ \E i \in DOMAIN subs : subs[i].key = ext.source_key
  THEN subs
  ELSE Append(subs, [key |-> ext.source_key, int_addr |-> ext.int_addr,
                     rx_status_bit |-> IF ext.source_key \in DOMAIN rx_by_cb
                                       THEN rx_by_cb[ext.source_key] ELSE NoBit])
SubscriptionsOf(ied, rx) ==
  FoldLeft(LAMBDA subs, ext : Subscribe(subs, ext, RxByCb(rx)), <<>>, ied.ext_refs)
SelGooseSubscriptions(doc) ==
  LET rx == SelGooseRxStatus(doc)
      Subs(n) == SubscriptionsOf(doc[n], IF n \in DOMAIN rx THEN rx[n] ELSE <<>>)
  IN  [n \in {m \in DOMAIN doc : doc[m].resolves /\ Subs(m) /= <<>>} |-> Subs(n)]

-----------------------------------------------------------------------------
(* Properties *)

Addresses(attrs, bit) ==
  {a \in DOMAIN attrs : bit \in ToSet(ParseSaddr(attrs[a].s_addr).names)}
Decorated(attrs, a) == IsDecorated(ParseSaddr(attrs[a].s_addr))
\* The point a bit is read at tells its state as well as any address of it in
\* the file: the command only if there is nothing else, a status whose value
\* is the bit before one it has to be taken out of, the first of two as good;
\* and where the value has to be taken apart the rule to do it comes along.
\* What is_enum_do would refuse -- the position of a breaker given as the bit
\* itself -- is not refused here, and wins like any other status.
ReadAtItsState(attrs, points) ==
  LET IsPlainStatus(a) == ~Decorated(attrs, a) /\ IsBooleanStatus(attrs[a].da)
  IN  /\ DOMAIN points = UNION {ToSet(ParseSaddr(attrs[a].s_addr).names) : a \in DOMAIN attrs}
      /\ \A bit \in DOMAIN points :
           LET won == points[bit].at
               all == Addresses(attrs, bit)
           IN  /\ won \in all
               /\ IsControl(attrs[won].da) =>
                    won = Min(all) /\ \A a \in all : IsControl(attrs[a].da)
               /\ (\E a \in all : IsPlainStatus(a)) => won = Min({a \in all : IsPlainStatus(a)})
               /\ points[bit].rule /= NoRule <=> Decorated(attrs, won)
               /\ (\E a \in all : Decorated(attrs, a) /\ IsEnumStatus(attrs[a].da)) =>
                    IsPlainStatus(won) \/ points[bit].rule /= NoRule

\* The health bit of a subscription is one its own publisher was declared to
\* set, by the first declaration of that bit; no bit tells the health of two
\* subscriptions; and of the bits declared for a control block the IED listens
\* to only the last is shown, if there is more than one.
HealthOfItsPublisher(ied, subs) ==
  LET First(bit) == Min({i \in DOMAIN ied.private : ied.private[i].bit = bit})
      bits == {ied.private[i].bit : i \in DOMAIN ied.private} \ {NoBit}
  IN  /\ \A k \in DOMAIN subs : subs[k].rx_status_bit /= NoBit =>
           ied.private[First(subs[k].rx_status_bit)].key = subs[k].key
      /\ \A k, m \in DOMAIN subs :
           k /= m => /\ subs[k].key /= subs[m].key
                     /\ subs[k].rx_status_bit /= subs[m].rx_status_bit
                          \/ subs[k].rx_status_bit = NoBit
      /\ \A bit \in bits : \A k \in DOMAIN subs :
           /\ subs[k].key = ied.private[First(bit)].key
           /\ \A other \in bits :
                ied.private[First(other)].key = subs[k].key => First(other) <= First(bit)
           => subs[k].rx_status_bit = bit
=============================================================================
