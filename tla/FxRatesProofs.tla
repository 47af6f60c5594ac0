------------------------- MODULE FxRatesProofs ------------------------------
(***************************************************************************)
(* Proofs about exchange rates: the inductive invariant IInv, and from it  *)
(* the type of the tables, that every stored rate is the quotient of two   *)
(* quotes, and that every value of an overview is the exact one, rounded;  *)
(* and the stronger FreshInv, from which a refresh that overlaps no other  *)
(* leaves no quote behind that was superseded when it began; for any       *)
(* currencies, prices and balances and any number of calls.                *)
(***************************************************************************)
EXTENDS FxRates, TLAPS

-----------------------------------------------------------------------------
(* Rates *)

\* Prices are positive.
LEMMA QuotedPositive ==
    ASSUME TypeOK, NEW x \in Currencies, NEW day \in Days
    PROVE  Quoted(x, day) \subseteq Nat \ {0}
<1>1. CASE x = CNY
    BY <1>1 DEF Quoted
<1>2. CASE x # CNY
    <2>1. x \in Foreign /\ published[<<x, day>>] \in Nat /\ published[<<x, day>>] <= MaxQuotes[x]
        BY <1>2 DEF TypeOK, Foreign
    <2>2. MaxQuotes[x] \in Nat
        BY <2>1, BoundAssumption
    <2>3. \A n \in 1..published[<<x, day>>] : Price[<<x, day, n>>] \in Nat \ {0}
        BY <2>1, <2>2, PriceAssumption
    <2> QED BY <1>2, <2>3 DEF Quoted
<1> QED BY <1>1, <1>2

\* The quote of an answer is a rate to CNY.
LEMMA NormalizedIsQuoted ==
    ASSUME TypeOK, NEW x \in Foreign, NEW day \in Days,
           NEW n \in 1..published[<<x, day>>]
    PROVE  /\ normalizeBocRate(x, day, n) \in Rate
           /\ IsQuoted(normalizeBocRate(x, day, n), x, CNY, day)
<1>1. x # CNY /\ x \in Currencies /\ CNY \in Currencies
    BY CurrencyAssumption DEF Foreign
<1>2. Price[<<x, day, n>>] \in Quoted(x, day)
    BY <1>1 DEF Quoted
<1>3. Price[<<x, day, n>>] \in Nat \ {0}
    BY <1>1, <1>2, QuotedPositive
<1>4. 100 \in Quoted(CNY, day)
    BY DEF Quoted
<1> QED BY <1>2, <1>3, <1>4 DEF normalizeBocRate, IsQuoted, Rate

\* A product of fractions of the prices is the fraction of the product: the cross of two
\* rates to CNY is a rate from the one currency to the other.
LEMMA CrossArithmetic ==
    ASSUME NEW an \in Nat \ {0}, NEW ad \in Nat \ {0}, NEW bn \in Nat \ {0},
           NEW bd \in Nat \ {0}, NEW p \in Nat \ {0}, NEW b \in Nat \ {0},
           an * 100 = ad * p, bn * 100 = bd * b
    PROVE  (an * bd) * b = (ad * bn) * p
<1>1. (an * 100) * (bd * b) = (ad * p) * (bn * 100)
    OBVIOUS
<1>2. ((an * bd) * b) * 100 = ((ad * bn) * p) * 100
    BY <1>1
<1>3. (an * bd) * b \in Int /\ (ad * bn) * p \in Int
    OBVIOUS
<1> QED BY <1>2, <1>3

LEMMA CrossIsQuoted ==
    ASSUME TypeOK, NEW x \in Currencies, NEW y \in Currencies, NEW day \in Days,
           NEW a \in Rate, NEW d \in Rate,
           IsQuoted(a, x, CNY, day), IsQuoted(d, y, CNY, day)
    PROVE  crossViaCny(a, d) \in Rate /\ IsQuoted(crossViaCny(a, d), x, y, day)
<1>1. /\ a.num \in Nat \ {0} /\ a.den \in Nat \ {0}
      /\ d.num \in Nat \ {0} /\ d.den \in Nat \ {0}
    BY DEF Rate
<1>2. Quoted(CNY, day) = {100}
    BY DEF Quoted
<1>3. PICK p \in Quoted(x, day) : a.num * 100 = a.den * p
    BY <1>2 DEF IsQuoted
<1>4. PICK b \in Quoted(y, day) : d.num * 100 = d.den * b
    BY <1>2 DEF IsQuoted
<1>5. p \in Nat \ {0} /\ b \in Nat \ {0}
    BY QuotedPositive
<1>6. (a.num * d.den) * b = (a.den * d.num) * p
    BY <1>1, <1>3, <1>4, <1>5, CrossArithmetic
<1>7. a.num * d.den \in Nat \ {0} /\ a.den * d.num \in Nat \ {0}
    BY <1>1
<1> QED BY <1>6, <1>7 DEF crossViaCny, IsQuoted, Rate

LEMMA IdentityIsQuoted ==
    ASSUME NEW day \in Days
    PROVE  CnyIdentity.rate \in Rate /\ IsQuoted(CnyIdentity.rate, CNY, CNY, day)
BY DEF CnyIdentity, Rate, IsQuoted, Quoted

-----------------------------------------------------------------------------
(* Rounding *)

\* A dividend is its quotient and its remainder.
LEMMA Division ==
    ASSUME NEW n \in Nat, NEW d \in Nat \ {0}
    PROVE  /\ n \div d \in Nat /\ n % d \in Nat /\ n % d < d
           /\ n = d * (n \div d) + (n % d)
OBVIOUS

\* Rounding a quotient by its remainder
LEMMA RoundByRemainder ==
    ASSUME NEW q \in Nat, NEW r \in Nat, NEW d \in Nat \ {0}, NEW w \in Nat, r < d,
           IF r * 2 > d \/ (r * 2 = d /\ q % 2 = 1) THEN w = q + 1 ELSE w = q
    PROVE  Nearest(w, d * q + r, d)
<1> DEFINE e == 2 * (w * d - (d * q + r))
<1>1. e = (IF w = q THEN -(2 * r) ELSE 2 * d - 2 * r)
    <2>1. CASE w = q
        <3>1. w * d = d * q
            BY <2>1
        <3> QED BY <2>1, <3>1
    <2>2. CASE w = q + 1
        <3>1. w * d = d * q + d
            BY <2>2
        <3> QED BY <2>2, <3>1
    <2> QED BY <2>1, <2>2
<1>2. -d <= e /\ e <= d
    <2> HIDE DEF e
    <2> QED BY <1>1
<1>3. e \in {-d, d} => w % 2 = 0
    <2> HIDE DEF e
    <2> QED BY <1>1
<1> QED BY <1>2, <1>3 DEF Nearest

\* The negative of a rounded number rounds the negative.
LEMMA NearestNegative ==
    ASSUME NEW w \in Nat, NEW n \in Int, NEW d \in Nat \ {0}, Nearest(w, -n, d)
    PROVE  Nearest(-w, n, d)
<1>1. 2 * ((-w) * d - n) = -(2 * (w * d - (-n)))
    OBVIOUS
<1>2. w % 2 = 0 => (-w) % 2 = 0
    OBVIOUS
<1> QED BY <1>1, <1>2 DEF Nearest

\* DivideHalfEven returns the nearest integer, and the even one of two.
LEMMA HalfEven ==
    ASSUME NEW n \in Int, NEW d \in Nat \ {0}
    PROVE  DivideHalfEven(n, d) \in Int /\ Nearest(DivideHalfEven(n, d), n, d)
<1> DEFINE positive == IF n < 0 THEN -n ELSE n
           q == positive \div d
           r == positive % d
           up == r * 2 > d \/ (r * 2 = d /\ q % 2 = 1)
           w == IF up THEN q + 1 ELSE q
<1>1. positive \in Nat
    OBVIOUS
<1>2. q \in Nat /\ r \in Nat /\ r < d /\ positive = d * q + r
    BY <1>1, Division
<1>3. w \in Nat
    BY <1>2
<1>4. Nearest(w, d * q + r, d)
    <2> HIDE DEF q, r, positive
    <2> QED BY <1>2, <1>3, RoundByRemainder
<1>5. Nearest(w, positive, d)
    <2> HIDE DEF q, r, w, positive
    <2> QED BY <1>2, <1>4
<1>6. DivideHalfEven(n, d) = IF n < 0 THEN -w ELSE w
    BY DEF DivideHalfEven
<1> HIDE DEF w
<1>7. CASE n < 0
    BY <1>3, <1>5, <1>6, <1>7, NearestNegative
<1>8. CASE ~(n < 0)
    BY <1>3, <1>5, <1>6, <1>8
<1> QED BY <1>7, <1>8

-----------------------------------------------------------------------------
(* The table of quotes *)

\* What IInv says of fx_quote
TableSound(q) ==
    /\ DOMAIN q \subseteq Keys /\ q \in [DOMAIN q -> SourceRow]
    /\ \A k \in DOMAIN q : IsQuoted(q[k].rate, k[1], k[2], k[3]) /\ Recorded(q, q[k].id)

\* A row that may be stored under a key
RowSound(q, key, row) ==
    /\ key \in Keys /\ row \in SourceRow
    /\ IsQuoted(row.rate, key[1], key[2], key[3])
    /\ Recorded(q, row.id) \/ key = <<row.id[1], CNY, row.id[2]>>

\* Storing a sound row, as a new one or over the rate of the row with its key, leaves
\* every row sound, and no row is lost.
LEMMA PutSound ==
    ASSUME NEW q, NEW key, NEW row, TableSound(q), RowSound(q, key, row)
    PROVE  /\ TableSound(putCached(q, key, row))
           /\ DOMAIN q \subseteq DOMAIN putCached(q, key, row)
           /\ key \in DOMAIN putCached(q, key, row)
<1> DEFINE p == putCached(q, key, row)
           new == IF key \in DOMAIN q THEN [row EXCEPT !.id = q[key].id] ELSE row
<1>1. /\ DOMAIN p = DOMAIN q \cup {key} /\ p \in [DOMAIN p -> {p[k] : k \in DOMAIN p}]
      /\ p[key] = new /\ \A k \in DOMAIN q \ {key} : p[k] = q[k]
    BY DEF putCached, Put
<1>2. new \in SourceRow /\ new.rate = row.rate
      /\ new.id = IF key \in DOMAIN q THEN q[key].id ELSE row.id
    BY DEF TableSound, RowSound, SourceRow
<1> HIDE DEF p, new
<1>3. DOMAIN p \subseteq Keys
    BY <1>1 DEF TableSound, RowSound
<1>4. \A k \in DOMAIN p : p[k] \in SourceRow
    BY <1>1, <1>2 DEF TableSound
<1>5. p \in [DOMAIN p -> SourceRow]
    BY <1>1, <1>4
<1>6. ASSUME NEW k \in DOMAIN p
      PROVE  IsQuoted(p[k].rate, k[1], k[2], k[3]) /\ Recorded(p, p[k].id)
    <2>1. CASE k = key
        BY <2>1, <1>1, <1>2 DEF TableSound, RowSound, Recorded
    <2>2. CASE k # key
        BY <2>2, <1>1 DEF TableSound, Recorded
    <2> QED BY <2>1, <2>2
<1> QED BY <1>1, <1>3, <1>5, <1>6 DEF TableSound, p

\* IInv in terms of the table
LEMMA InvariantParts ==
    IInv <=> TypeOK /\ TableSound(quotes) /\ CarriedRates
BY DEF IInv, TypeOK, TableSound, RatesAreQuoted, IdsAreRecorded

\* A stored quote in CNY, as fetchCnyRate reads it before it asks
LEMMA CachedSound ==
    ASSUME NEW q, TableSound(q), NEW x, NEW day,
           findCached(q, x, CNY, day) # None
    PROVE  /\ findCached(q, x, CNY, day) \in SourceRow
           /\ IsQuoted(findCached(q, x, CNY, day).rate, x, CNY, day)
           /\ Recorded(q, findCached(q, x, CNY, day).id)
BY DEF findCached, TableSound

-----------------------------------------------------------------------------
(* The steps of a call *)

\* A call between two awaits: what it may carry on with
Shape == [stage : {"asked", "answered"}, day : Days, base : Currencies,
          todo : SUBSET Holdings, asking : Currencies, answer : Nat,
          baseRate : SourceRow \cup {CnyIdentity}, cached : SourceRow \cup {None}]

Ready(q, r) == r \in Shape /\ r.base \notin r.todo /\ BaseRateSound(q, r)

\* A table that has grown to q, of which calls and types say nothing else
Grown(q) ==
    /\ IInv /\ TableSound(q) /\ DOMAIN quotes \subseteq DOMAIN q
    /\ UNCHANGED <<settings, overrides, published>>

LoneTyped == lone' \in [call : Calls, since : [Foreign -> Nat]] \cup {None}

\* A call that ends, or waits with something sound, leaves the invariant.
LEMMA CallKept ==
    ASSUME NEW q, Grown(q), LoneTyped, NEW c \in Calls, NEW r, quotes' = q,
           calls' = [calls EXCEPT ![c] = r],
           r = Idle \/ (r \in Waiting /\ CallSound(q, r))
    PROVE  IInv'
<1>1. TypeOK'
    BY DEF Grown, IInv, TypeOK, TableSound, LoneTyped
<1>0. \A rate, from, to, day : IsQuoted(rate, from, to, day)' <=> IsQuoted(rate, from, to, day)
    BY DEF Grown, IsQuoted, Quoted
<1>2. TableSound(quotes)'
    <2>1. TableSound(q) /\ quotes' = q
        BY DEF Grown
    <2> QED BY <2>1, <1>0 DEF TableSound, Recorded
<1>3. ASSUME NEW d \in Calls, calls'[d] # Idle
      PROVE  CallSound(quotes, calls[d])'
    <2>1. CASE d = c
        <3>1. calls'[d] = r
            BY <2>1 DEF Grown, IInv, TypeOK
        <3> QED BY <3>1, <1>3 DEF Grown, CallSound, BaseRateSound, IsQuoted, Quoted, Recorded
    <2>2. CASE d # c
        <3>1. calls'[d] = calls[d] /\ CallSound(quotes, calls[d])
            BY <2>2, <1>3 DEF Grown, IInv, TypeOK, CarriedRates
        <3> QED BY <3>1 DEF Grown, CallSound, BaseRateSound, IsQuoted, Quoted, Recorded
    <2> QED BY <2>1, <2>2
<1> QED BY <1>1, <1>2, <1>3 DEF IInv, TypeOK, TableSound, RatesAreQuoted, IdsAreRecorded,
                              CarriedRates

LEMMA FinishKept ==
    ASSUME NEW q, Grown(q), LoneTyped, NEW c \in Calls, Finish(c, q)
    PROVE  IInv'
BY CallKept DEF Finish

\* Asking for the next currency
LEMMA AskKept ==
    ASSUME NEW q, Grown(q), LoneTyped, NEW c \in Calls, NEW r, r \in Shape,
           r.base \notin r.todo, NEW x \in Foreign,
           x # r.base => x \in r.todo /\ BaseRateSound(q, r),
           Ask(c, r, q, x)
    PROVE  IInv'
<1> DEFINE s == [r EXCEPT !.stage = "asked", !.asking = x, !.answer = 0,
                          !.cached = findCached(q, x, CNY, r.day)]
<1>1. /\ s.day = r.day /\ s.base = r.base /\ s.todo = r.todo /\ s.asking = x
      /\ s.answer = 0 /\ s.baseRate = r.baseRate
      /\ s.cached = findCached(q, x, CNY, r.day)
    BY DEF Shape
<1>2. s.cached # None => /\ s.cached \in SourceRow
                         /\ IsQuoted(s.cached.rate, x, CNY, r.day)
                         /\ Recorded(q, s.cached.id)
    BY <1>1, CachedSound DEF Grown
<1>3. s \in Waiting
    BY <1>1, <1>2 DEF Shape, Waiting
<1>4. 0 <= published[<<x, r.day>>]
    BY DEF Grown, IInv, TypeOK, Shape
<1> HIDE DEF s
<1>5. CallSound(q, s)
    BY <1>1, <1>2, <1>4 DEF CallSound, BaseRateSound
<1> QED BY <1>3, <1>5, CallKept DEF Ask, s

LEMMA NextFetchKept ==
    ASSUME NEW q, Grown(q), LoneTyped, NEW c \in Calls, NEW r, Ready(q, r),
           NextFetch(c, r, q)
    PROVE  IInv'
<1>1. CASE r.todo = {} /\ Finish(c, q)
    BY <1>1, FinishKept
<1>2. CASE \E x \in r.todo \ {CNY} : Ask(c, r, q, x)
    <2>1. PICK x \in r.todo \ {CNY} : Ask(c, r, q, x)
        BY <1>2
    <2>2. x \in Foreign
        BY CurrencyAssumption DEF Ready, Shape, Foreign
    <2> QED BY <2>1, <2>2, AskKept DEF Ready
<1> QED BY <1>1, <1>2 DEF NextFetch

\* What a call has to derive a rate from
SourceSound(q, r, x, source) ==
    /\ IsQuoted(source.rate, x, CNY, r.day)
    /\ \/ source \in SourceRow /\ Recorded(q, source.id)
       \/ source = CnyIdentity /\ r.base # CNY

\* The derived rate, with the id and the etag it takes from its quotes, may be stored.
LEMMA DerivedSound ==
    ASSUME NEW q, Grown(q), NEW r, Ready(q, r), NEW x \in Currencies, NEW source,
           SourceSound(q, r, x, source)
    PROVE  RowSound(q, <<x, r.base, r.day>>, Derived(r, source))
<1>0. r.base \in Currencies /\ r.day \in Days /\ TypeOK
    BY DEF Ready, Shape, Grown, IInv
<1>1. <<x, r.base, r.day>> \in Keys
    BY <1>0 DEF Keys
<1>2. CASE r.base = CNY
    BY <1>1, <1>2 DEF Derived, SourceSound, RowSound
<1>3. CASE r.base # CNY
    <2>1. source.rate \in Rate /\ source.etag \in Nat
        BY IdentityIsQuoted DEF SourceSound, SourceRow, CnyIdentity, Rate
    <2>2. /\ r.baseRate \in SourceRow /\ r.baseRate.rate \in Rate
          /\ IsQuoted(r.baseRate.rate, r.base, CNY, r.day) /\ Recorded(q, r.baseRate.id)
        BY <1>3 DEF Ready, BaseRateSound, SourceRow
    <2>3. /\ crossViaCny(source.rate, r.baseRate.rate) \in Rate
          /\ IsQuoted(crossViaCny(source.rate, r.baseRate.rate), x, r.base, r.day)
        BY <1>0, <2>1, <2>2, CrossIsQuoted DEF SourceSound
    <2> DEFINE id == IF source.id = None THEN r.baseRate.id ELSE source.id
    <2>4. id \in QuoteIds /\ Recorded(q, id)
        BY <2>2 DEF SourceSound, SourceRow, CnyIdentity
    <2>5. Derived(r, source) = [rate |-> crossViaCny(source.rate, r.baseRate.rate),
                                id |-> id, etag |-> source.etag]
        BY <1>3 DEF Derived
    <2> HIDE DEF id
    <2> QED BY <1>1, <2>1, <2>3, <2>4, <2>5 DEF RowSound, SourceRow
<1> QED BY <1>2, <1>3

\* A larger table takes nothing from a call.
LEMMA ReadyGrows ==
    ASSUME NEW q, NEW p, DOMAIN q \subseteq DOMAIN p, NEW r, Ready(q, r), NEW x
    PROVE  Ready(p, r) /\ Ready(p, Without(r, x))
<1>1. Ready(p, r)
    BY DEF Ready, BaseRateSound, Recorded
<1>2. /\ Without(r, x) \in Shape /\ Without(r, x).base = r.base
      /\ Without(r, x).baseRate = r.baseRate /\ Without(r, x).day = r.day
      /\ Without(r, x).todo \subseteq r.todo
    BY DEF Ready, Shape, Without
<1> QED BY <1>1, <1>2 DEF Ready, BaseRateSound

LEMMA ProceedKept ==
    ASSUME NEW q, Grown(q), LoneTyped, NEW c \in Calls, NEW r, Ready(q, r),
           Proceed(c, r, q)
    PROVE  IInv'
<1> DEFINE key == <<CNY, r.base, r.day>>
           row == Derived(r, CnyIdentity)
           p == putCached(q, key, row)
<1>1. CASE NextFetch(c, r, q)
    BY <1>1, NextFetchKept
<1>2. CASE CNY \in r.todo /\ ~Storable(q, key, row) /\ Finish(c, q)
    BY <1>2, FinishKept
<1>3. CASE CNY \in r.todo /\ Storable(q, key, row) /\ NextFetch(c, Without(r, CNY), p)
    <2>1. r.base # CNY /\ r.day \in Days
        BY <1>3 DEF Ready, Shape
    <2>2. SourceSound(q, r, CNY, CnyIdentity)
        BY <2>1, IdentityIsQuoted DEF SourceSound
    <2>3. RowSound(q, key, row)
        BY <2>2, DerivedSound, CurrencyAssumption
    <2> HIDE DEF key, row
    <2>4. TableSound(p) /\ DOMAIN q \subseteq DOMAIN p
        BY <2>3, PutSound DEF Grown
    <2> HIDE DEF p
    <2>5. Grown(p) /\ Ready(p, Without(r, CNY))
        BY <2>4, ReadyGrows DEF Grown
    <2> QED BY <1>3, <2>5, NextFetchKept
<1> QED BY <1>1, <1>2, <1>3 DEF Proceed

\* What an answer, or the row a 304 stands for, leaves in the table and with the call
LEMMA ReceivedSound ==
    ASSUME IInv, NEW c \in Calls, calls[c] # Idle, calls[c].answer # 0
    PROVE  LET r == calls[c]
               q == Received(r)
           IN  /\ TableSound(q) /\ DOMAIN quotes \subseteq DOMAIN q
               /\ Source(r) \in SourceRow
               /\ IsQuoted(Source(r).rate, r.asking, CNY, r.day)
               /\ Recorded(q, Source(r).id)
<1> DEFINE r == calls[c]
           q == Received(r)
           key == <<r.asking, CNY, r.day>>
<1>1. r \in Waiting /\ CallSound(quotes, r) /\ TableSound(quotes) /\ TypeOK
    BY InvariantParts DEF TypeOK, CarriedRates
<1>2. CASE NotModified(r)
    <2>1. q = quotes /\ Source(r) = r.cached /\ r.cached # None
        BY <1>2 DEF Received, Source, NotModified
    <2> QED BY <1>1, <2>1 DEF CallSound, Waiting
<1>3. CASE ~NotModified(r)
    <2>1. q = putCached(quotes, key, Source(r))
        BY <1>3 DEF Received
    <2>2. /\ Source(r).rate = normalizeBocRate(r.asking, r.day, r.answer)
          /\ Source(r).id = <<r.asking, r.day, r.answer>> /\ Source(r).etag = r.answer
          /\ Source(r) = [rate |-> normalizeBocRate(r.asking, r.day, r.answer),
                          id |-> <<r.asking, r.day, r.answer>>, etag |-> r.answer]
        BY <1>3 DEF Source
    <2>3. r.asking \in Foreign /\ r.day \in Days /\ r.answer \in Nat \ {0}
        BY <1>1 DEF Waiting
    <2>4. published[<<r.asking, r.day>>] \in Nat
        BY <1>1, <2>3 DEF TypeOK
    <2>5. r.answer \in 1..published[<<r.asking, r.day>>]
        BY <1>1, <2>3, <2>4 DEF CallSound
    <2>6. /\ Source(r).rate \in Rate
          /\ IsQuoted(Source(r).rate, r.asking, CNY, r.day)
        BY <1>1, <2>2, <2>3, <2>5, NormalizedIsQuoted
    <2>7. Source(r) \in SourceRow
        BY <2>2, <2>3, <2>6 DEF SourceRow, QuoteIds
    <2>8. key \in Keys
        BY <2>3, CurrencyAssumption DEF Keys, Foreign
    <2>9. RowSound(quotes, key, Source(r))
        BY <2>2, <2>6, <2>7, <2>8 DEF RowSound
    <2>10. TableSound(q) /\ DOMAIN quotes \subseteq DOMAIN q /\ key \in DOMAIN q
        BY <1>1, <2>1, <2>9, PutSound
    <2> QED BY <2>2, <2>6, <2>7, <2>10 DEF Recorded
<1> QED BY <1>2, <1>3

-----------------------------------------------------------------------------
(* The invariant *)

LEMMA WatchedTyped == IInv /\ Watched => LoneTyped
BY DEF IInv, TypeOK, Watched, LoneTyped

LEMMA OverviewKept ==
    ASSUME IInv, NEW c \in Calls, NEW day \in Days, Overview(c, day)
    PROVE  IInv'
<1> DEFINE r == [stage |-> "asked", day |-> day, base |-> settings.base,
                 todo |-> Holdings \ {settings.base}, baseRate |-> CnyIdentity,
                 asking |-> settings.base, cached |-> None, answer |-> 0]
<1>1. TypeOK /\ settings.base \in Currencies
    BY DEF IInv, TypeOK
<1>2. r \in Shape /\ r.base = settings.base /\ r.base \notin r.todo
    BY <1>1 DEF Shape
<1>3. LoneTyped
    BY <1>1 DEF Overview, LoneTyped, TypeOK
<1>4. Grown(quotes)
    BY InvariantParts DEF Grown, Overview
<1>5. settings.base = CNY => Ready(quotes, r)
    BY <1>2 DEF Ready, BaseRateSound
<1>6. settings.base # CNY => settings.base \in Foreign
    BY <1>1 DEF Foreign
<1>7. \/ Finish(c, quotes)
      \/ settings.base = CNY /\ Proceed(c, r, quotes)
      \/ settings.base # CNY /\ Ask(c, r, quotes, settings.base)
    BY DEF Overview
<1> HIDE DEF r
<1>8. CASE Finish(c, quotes)
    BY <1>3, <1>4, <1>8, FinishKept
<1>9. CASE settings.base = CNY /\ Proceed(c, r, quotes)
    BY <1>3, <1>4, <1>5, <1>9, ProceedKept
<1>10. CASE settings.base # CNY /\ Ask(c, r, quotes, settings.base)
    BY <1>2, <1>3, <1>4, <1>6, <1>10, AskKept
<1> QED BY <1>7, <1>8, <1>9, <1>10

LEMMA ReceiveKept ==
    ASSUME IInv, NEW c \in Calls, Receive(c)
    PROVE  IInv'
<1> DEFINE r == calls[c]
           x == r.asking
           q == Received(r)
           key == <<x, r.base, r.day>>
           row == Derived(r, Source(r))
           p == putCached(q, key, row)
           b == [r EXCEPT !.baseRate = Source(r)]
<1>1. r # Idle /\ LoneTyped
    BY WatchedTyped DEF Receive, Idle
<1>2. r \in Waiting /\ CallSound(quotes, r) /\ TableSound(quotes)
    BY <1>1, InvariantParts DEF TypeOK, CarriedRates
<1>3. r \in Shape /\ r.base \notin r.todo /\ x \in Foreign /\ x \in Currencies /\ x # CNY
    BY <1>2 DEF Waiting, Shape, Foreign, CallSound
<1>4. Grown(quotes)
    BY <1>2 DEF Grown, Receive
<1>5. ~ForBase(r) => Ready(quotes, r)
    BY <1>2, <1>3 DEF ForBase, Ready, CallSound
<1>6. r.answer # 0 =>
          /\ Grown(q) /\ Source(r) \in SourceRow
          /\ IsQuoted(Source(r).rate, x, CNY, r.day) /\ Recorded(q, Source(r).id)
    BY <1>1, <1>4, ReceivedSound DEF Grown
<1>7. CASE r.answer = 0 /\ ForBase(r) /\ Finish(c, quotes)
    BY <1>1, <1>4, <1>7, FinishKept
<1>8. CASE r.answer = 0 /\ ~ForBase(r) /\ Proceed(c, Without(r, x), quotes)
    <2>1. Ready(quotes, Without(r, x))
        BY <1>5, <1>8, ReadyGrows
    <2> QED BY <1>1, <1>4, <1>8, <2>1, ProceedKept
<1>9. CASE r.answer # 0 /\ ForBase(r) /\ Proceed(c, b, q)
    <2>1. /\ b.base = r.base /\ b.todo = r.todo /\ b.baseRate = Source(r) /\ b.day = r.day
          /\ b \in Shape
        BY <1>3, <1>6, <1>9 DEF Shape
    <2>2. r.base # CNY
        BY <1>3, <1>9 DEF ForBase
    <2> HIDE DEF b, q
    <2>3. Ready(q, b)
        BY <1>3, <1>6, <1>9, <2>1, <2>2 DEF Ready, BaseRateSound, ForBase
    <2> QED BY <1>1, <1>6, <1>9, <2>3, ProceedKept
<1>10. CASE r.answer # 0 /\ ~ForBase(r) /\ ~Storable(q, key, row) /\ Finish(c, q)
    BY <1>1, <1>6, <1>10, FinishKept
<1>11. CASE r.answer # 0 /\ ~ForBase(r) /\ Proceed(c, Without(r, x), p)
    <2> HIDE DEF q
    <2>1. Grown(q) /\ Ready(quotes, r) /\ DOMAIN quotes \subseteq DOMAIN q
        BY <1>5, <1>6, <1>11 DEF Grown
    <2>2. Ready(q, r)
        BY <2>1, ReadyGrows
    <2>3. SourceSound(q, r, x, Source(r))
        BY <1>6, <1>11 DEF SourceSound
    <2>4. RowSound(q, key, row)
        BY <1>3, <2>1, <2>2, <2>3, DerivedSound
    <2> HIDE DEF key, row
    <2>5. TableSound(p) /\ DOMAIN q \subseteq DOMAIN p
        BY <2>1, <2>4, PutSound DEF Grown
    <2> HIDE DEF p
    <2>6. Grown(p) /\ Ready(p, Without(r, x))
        BY <2>1, <2>2, <2>5, ReadyGrows DEF Grown
    <2> QED BY <1>1, <1>11, <2>6, ProceedKept
<1> QED BY <1>7, <1>8, <1>9, <1>10, <1>11 DEF Receive

LEMMA FailKept ==
    ASSUME IInv, NEW c \in Calls, Fail(c)
    PROVE  IInv'
<1>1. LoneTyped /\ Grown(quotes)
    BY WatchedTyped, InvariantParts DEF Fail, Grown
<1> QED BY <1>1, FinishKept DEF Fail

\* The provider's answer is one it has published.
LEMMA ServeKept ==
    ASSUME IInv, NEW c \in Calls, Serve(c)
    PROVE  IInv'
<1> DEFINE r == calls[c]
           s == [r EXCEPT !.stage = "answered", !.answer = published[<<r.asking, r.day>>]]
<1>1. r # Idle
    BY DEF Serve, Idle
<1>2. r \in Waiting /\ CallSound(quotes, r) /\ TableSound(quotes) /\ TypeOK
    BY <1>1, InvariantParts DEF TypeOK, CarriedRates
<1>3. published[<<r.asking, r.day>>] \in Nat
    BY <1>2 DEF TypeOK, Waiting
<1>4. s \in Waiting
    BY <1>2, <1>3 DEF Waiting
<1>5. CallSound(quotes, s)
    BY <1>2, <1>3 DEF CallSound, BaseRateSound, Waiting
<1>6. Grown(quotes) /\ LoneTyped
    BY <1>2 DEF Grown, LoneTyped, TypeOK, Serve
<1>7. quotes' = quotes /\ calls' = [calls EXCEPT ![c] = s]
    BY <1>2 DEF Serve, TypeOK
<1> HIDE DEF s
<1> QED BY <1>4, <1>5, <1>6, <1>7, CallKept

\* A quote that is out stays out.
LEMMA PublishKept ==
    ASSUME IInv, NEW x \in Foreign, NEW day \in Days, Publish(x, day)
    PROVE  IInv'
<1>1. TypeOK /\ published[<<x, day>>] \in Nat /\ MaxQuotes[x] \in Nat
    BY BoundAssumption DEF IInv, TypeOK
<1>2. /\ published' \in [Foreign \X Days -> Nat]
      /\ \A y \in Foreign, d \in Days :
            /\ published[<<y, d>>] <= published'[<<y, d>>]
            /\ published'[<<y, d>>] <= MaxQuotes[y]
    <2>1. published' = [published EXCEPT ![<<x, day>>] = published[<<x, day>>] + 1]
        BY DEF Publish
    <2>2. published' \in [Foreign \X Days -> Nat]
        BY <1>1, <2>1 DEF TypeOK
    <2>3. ASSUME NEW y \in Foreign, NEW d \in Days
          PROVE  /\ published[<<y, d>>] <= published'[<<y, d>>]
                 /\ published'[<<y, d>>] <= MaxQuotes[y]
        <3>1. CASE <<y, d>> = <<x, day>>
            BY <1>1, <2>1, <3>1 DEF TypeOK, Publish
        <3>2. CASE <<y, d>> # <<x, day>>
            BY <1>1, <2>1, <3>2 DEF TypeOK
        <3> QED BY <3>1, <3>2
    <2> QED BY <2>2, <2>3
<1>3. TypeOK'
    BY <1>1, <1>2 DEF TypeOK, Publish
<1>4. ASSUME NEW y \in Currencies, NEW d \in Days
      PROVE  Quoted(y, d) \subseteq Quoted(y, d)'
    <2>1. CASE y = CNY
        BY <2>1 DEF Quoted
    <2>2. CASE y # CNY
        <3>1. <<y, d>> \in Foreign \X Days
            BY <2>2 DEF Foreign
        <3>2. /\ published[<<y, d>>] \in Nat /\ published'[<<y, d>>] \in Nat
              /\ published[<<y, d>>] <= published'[<<y, d>>]
            BY <1>1, <1>2, <3>1 DEF TypeOK
        <3> QED BY <2>2, <3>2 DEF Quoted
    <2> QED BY <2>1, <2>2
<1>5. \A rate, y, z, d : y \in Currencies /\ z \in Currencies /\ d \in Days
                            /\ IsQuoted(rate, y, z, d) => IsQuoted(rate, y, z, d)'
    BY <1>4 DEF IsQuoted
<1>6. RatesAreQuoted'
    BY <1>1, <1>5 DEF IInv, RatesAreQuoted, TypeOK, Keys, Publish
<1>7. IdsAreRecorded'
    BY DEF IInv, IdsAreRecorded, Recorded, Publish
<1>8. ASSUME NEW c \in Calls, calls[c] # Idle
      PROVE  CallSound(quotes, calls[c])'
    <2>1. calls[c] \in Waiting /\ CallSound(quotes, calls[c])
        BY <1>1, <1>8 DEF IInv, TypeOK, CarriedRates
    <2>2. calls[c].asking \in Foreign /\ calls[c].day \in Days /\ calls[c].answer \in Nat
          /\ calls[c].asking \in Currencies /\ calls[c].base \in Currencies
          /\ CNY \in Currencies
        BY <2>1, CurrencyAssumption DEF Waiting, Foreign
    <2>3. calls[c].answer <= published'[<<calls[c].asking, calls[c].day>>]
        BY <1>1, <1>2, <2>1, <2>2 DEF CallSound, TypeOK
    <2>4. BaseRateSound(quotes, calls[c]) => BaseRateSound(quotes, calls[c])'
        BY <1>5, <2>2 DEF BaseRateSound, Recorded, Publish
    <2> QED BY <1>5, <2>1, <2>2, <2>3, <2>4 DEF CallSound, Recorded, Publish
<1> QED BY <1>3, <1>6, <1>7, <1>8 DEF IInv, CarriedRates, Publish

\* Steps that leave the quotes, the calls and the provider alone
LEMMA OthersKept ==
    ASSUME IInv, TypeOK', UNCHANGED <<quotes, published, calls>>
    PROVE  IInv'
<1>1. \A rate, from, to, day : IsQuoted(rate, from, to, day)' <=> IsQuoted(rate, from, to, day)
    BY DEF IsQuoted, Quoted
<1>2. RatesAreQuoted' /\ IdsAreRecorded'
    BY <1>1 DEF IInv, RatesAreQuoted, IdsAreRecorded, Recorded
<1>3. CarriedRates'
    BY <1>1 DEF IInv, CarriedRates, CallSound, BaseRateSound, Recorded
<1> QED BY <1>2, <1>3 DEF IInv

LEMMA SetBaseKept ==
    ASSUME IInv, NEW base \in Currencies, NEW v \in 0..MaxVersion, SetBaseCurrency(base, v)
    PROVE  IInv'
<1>1. v + 1 \in 0..MaxVersion
    BY BoundAssumption DEF IInv, TypeOK, SetBaseCurrency
<1>2. TypeOK'
    BY <1>1 DEF IInv, TypeOK, SetBaseCurrency
<1> QED BY <1>2, OthersKept DEF SetBaseCurrency

LEMMA OverrideKept ==
    ASSUME IInv, NEW pair \in Pairs, NEW day \in Days,
           DeleteFxOverride(pair, day)
             \/ \E rate \in ManualRates : SaveFxOverride(pair, day, rate)
    PROVE  IInv'
<1> DEFINE key == <<pair[1], pair[2], day>>
           row == [rate : Rate, deleted : BOOLEAN, version : 0..MaxVersion]
<1>1. key \in Keys /\ ManualRates \subseteq Rate /\ MaxVersion \in Nat
    BY ManualAssumption, BoundAssumption DEF Keys
<1>2. /\ DOMAIN overrides \subseteq Keys /\ overrides \in [DOMAIN overrides -> row]
      /\ UNCHANGED <<settings, quotes, published, calls, lone>>
    BY DEF IInv, TypeOK, SaveFxOverride, DeleteFxOverride
<1>3. VersionOf(key) \in Int /\ (VersionOf(key) < MaxVersion => VersionOf(key) + 1 \in 0..MaxVersion)
    BY <1>1, <1>2 DEF VersionOf
<1>4. CASE DeleteFxOverride(pair, day)
    <2>1. /\ key \in DOMAIN overrides /\ overrides[key] \in row
          /\ overrides' = [overrides EXCEPT ![key] =
                             [overrides[key] EXCEPT !.deleted = TRUE,
                                                    !.version = overrides[key].version + 1]]
          /\ VersionOf(key) = overrides[key].version /\ VersionOf(key) < MaxVersion
        BY <1>2, <1>4 DEF DeleteFxOverride, VersionOf
    <2>2. [overrides[key] EXCEPT !.deleted = TRUE, !.version = overrides[key].version + 1]
            \in row
        BY <1>3, <2>1
    <2>3. DOMAIN overrides' \subseteq Keys /\ overrides' \in [DOMAIN overrides' -> row]
        BY <1>2, <2>1, <2>2
    <2> QED BY <1>2, <2>3, OthersKept DEF IInv, TypeOK
<1>5. CASE \E rate \in ManualRates : SaveFxOverride(pair, day, rate)
    <2>1. PICK rate \in ManualRates :
             /\ VersionOf(key) < MaxVersion
             /\ overrides' = Put(overrides, key, [rate |-> rate, deleted |-> FALSE,
                                                  version |-> VersionOf(key) + 1])
        BY <1>5 DEF SaveFxOverride
    <2>2. [rate |-> rate, deleted |-> FALSE, version |-> VersionOf(key) + 1] \in row
        BY <1>1, <1>3, <2>1
    <2>3. DOMAIN overrides' \subseteq Keys /\ overrides' \in [DOMAIN overrides' -> row]
        BY <1>1, <1>2, <2>1, <2>2 DEF Put
    <2> QED BY <1>2, <2>3, OthersKept DEF IInv, TypeOK
<1> QED BY <1>4, <1>5

LEMMA QuitKept == IInv /\ Quit => IInv'
<1> SUFFICES ASSUME IInv, Quit PROVE IInv'
    OBVIOUS
<1>1. \A rate, from, to, day : IsQuoted(rate, from, to, day)' <=> IsQuoted(rate, from, to, day)
    BY DEF IsQuoted, Quoted, Quit
<1>2. TypeOK'
    BY DEF IInv, TypeOK, Quit
<1>3. RatesAreQuoted' /\ IdsAreRecorded'
    BY <1>1 DEF IInv, RatesAreQuoted, IdsAreRecorded, Recorded, Quit
<1>4. CarriedRates'
    BY DEF CarriedRates, Quit
<1> QED BY <1>2, <1>3, <1>4 DEF IInv

LEMMA InitInvariant == Init => IInv
<1> SUFFICES ASSUME Init PROVE IInv
    OBVIOUS
<1>1. TypeOK
    BY CurrencyAssumption, BoundAssumption DEF Init, TypeOK, Foreign
<1> QED BY <1>1 DEF Init, IInv, RatesAreQuoted, IdsAreRecorded, CarriedRates

LEMMA StepKept == IInv /\ [Next]_vars => IInv'
<1> SUFFICES ASSUME IInv, [Next]_vars PROVE IInv'
    OBVIOUS
<1>1. ASSUME NEW c \in Calls, NEW day \in Days, Overview(c, day) PROVE IInv'
    BY <1>1, OverviewKept
<1>2. ASSUME NEW c \in Calls, Serve(c) PROVE IInv'
    BY <1>2, ServeKept
<1>3. ASSUME NEW c \in Calls, Receive(c) PROVE IInv'
    BY <1>3, ReceiveKept
<1>4. ASSUME NEW c \in Calls, Fail(c) PROVE IInv'
    BY <1>4, FailKept
<1>5. ASSUME NEW base \in Currencies, NEW v \in 0..MaxVersion, SetBaseCurrency(base, v)
      PROVE  IInv'
    BY <1>5, SetBaseKept
<1>6. ASSUME NEW pair \in Pairs, NEW day \in Days, NEW rate \in ManualRates,
             SaveFxOverride(pair, day, rate)
      PROVE  IInv'
    BY <1>6, OverrideKept
<1>7. ASSUME NEW pair \in Pairs, NEW day \in Days, DeleteFxOverride(pair, day) PROVE IInv'
    BY <1>7, OverrideKept
<1>8. ASSUME NEW x \in Foreign, NEW day \in Days, Publish(x, day) PROVE IInv'
    BY <1>8, PublishKept
<1>9. CASE Quit
    BY <1>9, QuitKept
<1>10. CASE UNCHANGED vars
    <2>1. TypeOK'
        BY <1>10 DEF IInv, TypeOK, vars
    <2> QED BY <1>10, <2>1, OthersKept DEF vars
<1> QED BY <1>1, <1>2, <1>3, <1>4, <1>5, <1>6, <1>7, <1>8, <1>9, <1>10 DEF Next

\* The inductive invariant of the specification: the tables have their types, stored rates
\* are quotients of quotes, ids have their row, and what calls carry is sound.
THEOREM Invariant == Spec => []IInv
BY InitInvariant, StepKept, PTL DEF Spec

\* The tables and the waiting calls have their types.
THEOREM TypeCorrect == Spec => []TypeOK
<1>1. IInv => TypeOK
    BY DEF IInv
<1> QED BY <1>1, Invariant, PTL

\* Every stored rate is the quotient of two quotes of its currencies and its day, for any
\* number of overlapping refreshes.
THEOREM StoredRatesAreQuoted == Spec => []RatesAreQuoted
<1>1. IInv => RatesAreQuoted
    BY DEF IInv
<1> QED BY <1>1, Invariant, PTL

-----------------------------------------------------------------------------
(* The values of an overview *)

LEMMA Cancel ==
    ASSUME NEW a \in Int, NEW b \in Int, NEW d \in Nat \ {0}
    PROVE  (a * d <= b * d => a <= b) /\ (a * d = b * d => a = b)
OBVIOUS

\* Rounding sees the value of a fraction, not its terms.
LEMMA NearestScales ==
    ASSUME NEW v \in Int, NEW m \in Int, NEW n \in Nat \ {0}, NEW d \in Nat \ {0},
           NEW p \in Nat \ {0}, NEW b \in Nat \ {0}, n * b = d * p,
           Nearest(v, m * n, d)
    PROVE  Nearest(v, m * p, b)
<1> DEFINE e == 2 * (v * d - m * n)
           f == 2 * (v * b - m * p)
<1>1. e \in Int /\ f \in Int /\ -d <= e /\ e <= d /\ (e \in {-d, d} => v % 2 = 0)
    BY DEF Nearest
<1>2. f * d = e * b
    <2>1. (m * p) * d = (m * n) * b
        BY m * (n * b) = m * (d * p)
    <2>2. (v * b) * d = (v * d) * b
        OBVIOUS
    <2> QED BY <2>1, <2>2
<1> HIDE DEF e, f
<1>3. e * b <= d * b /\ (-d) * b <= e * b
    BY <1>1
<1>4. f * d <= b * d /\ (-b) * d <= f * d
    BY <1>1, <1>2, <1>3
<1>5. f <= b /\ -b <= f
    BY <1>1, <1>4, Cancel
<1>6. f = b => e = d
    BY <1>1, <1>2, Cancel
<1>7. f = -b => e = -d
    <2> SUFFICES ASSUME f = -b PROVE e = -d
        OBVIOUS
    <2>1. e * b = (-d) * b
        BY <1>2
    <2> QED BY <1>1, <2>1, Cancel
<1>8. f \in {-b, b} => v % 2 = 0
    BY <1>1, <1>6, <1>7
<1> QED BY <1>5, <1>8 DEF Nearest, f

\* Every value of an overview is the exact one, rounded half to even.
THEOREM OverviewsAreRight == Spec => []ValuesAreRight
<1>1. ASSUME IInv, NEW day \in Days, NEW x \in Holdings \ {settings.base}
      PROVE  LET base == settings.base
                 v == Valued(quotes, base, day, x)
                 manual == {k \in DOMAIN overrides :
                              k = <<x, base, day>> /\ ~overrides[k].deleted}
             IN  IF manual # {}
                 THEN \E k \in manual : Nearest(v, Balance[x] * overrides[k].rate.num,
                                                overrides[k].rate.den)
                 ELSE v # None => \E p \in Quoted(x, day), b \in Quoted(base, day) :
                                     Nearest(v, Balance[x] * p, b)
    <2> DEFINE base == settings.base
               key == <<x, base, day>>
               v == Valued(quotes, base, day, x)
               manual == {k \in DOMAIN overrides : k = key /\ ~overrides[k].deleted}
    <2>1. /\ TypeOK /\ TableSound(quotes) /\ base \in Currencies /\ x \in Currencies
          /\ Balance[x] \in Int
        BY <1>1, InvariantParts, CurrencyAssumption, BalanceAssumption DEF TypeOK
    <2>2. ASSUME NEW rate \in Rate
          PROVE  /\ convertMinor(Balance[x], rate) \in Int
                 /\ Nearest(convertMinor(Balance[x], rate), Balance[x] * rate.num, rate.den)
        BY <2>1, HalfEven DEF Rate, convertMinor
    <2>3. CASE manual # {}
        <3>1. key \in DOMAIN overrides /\ ~overrides[key].deleted /\ key \in manual
            BY <2>3
        <3>2. overrides[key].rate \in Rate
            BY <2>1, <3>1 DEF TypeOK
        <3>3. v = convertMinor(Balance[x], overrides[key].rate)
            BY <3>1, <3>2, NoneAssumption DEF Valued, Resolved, findManual
        <3> QED BY <2>2, <2>3, <3>1, <3>2, <3>3
    <2>4. CASE manual = {} /\ v # None
        <3>1. ~(key \in DOMAIN overrides /\ ~overrides[key].deleted)
            BY <2>4
        <3>2. key \in DOMAIN quotes /\ v = convertMinor(Balance[x], quotes[key].rate)
            BY <2>4, <3>1 DEF Valued, Resolved, findCached, findManual
        <3>3. quotes[key].rate \in Rate /\ IsQuoted(quotes[key].rate, x, base, day)
            BY <2>1, <3>2 DEF TableSound, SourceRow
        <3>4. PICK p \in Quoted(x, day), b \in Quoted(base, day) :
                 quotes[key].rate.num * b = quotes[key].rate.den * p
            BY <3>3 DEF IsQuoted
        <3>5. p \in Nat \ {0} /\ b \in Nat \ {0}
            BY <2>1, QuotedPositive
        <3>6. Nearest(v, Balance[x] * p, b)
            BY <2>1, <2>2, <3>2, <3>3, <3>4, <3>5, NearestScales DEF Rate
        <3> QED BY <2>4, <3>6
    <2> QED BY <2>3, <2>4
<1>2. IInv => ValuesAreRight
    BY <1>1 DEF ValuesAreRight
<1> QED BY <1>2, Invariant, PTL


-----------------------------------------------------------------------------
(* A refresh that overlaps no other *)

\* A stored quote in CNY is the one its etag names: a 304 stands for the row it is about.
IsAnswer(row, x, day) == row.rate = normalizeBocRate(x, day, row.etag)

AnswersStored(q) ==
    \A x \in Foreign, day \in Days :
        <<x, CNY, day>> \in DOMAIN q => IsAnswer(q[<<x, CNY, day>>], x, day)

CachedAnswers ==
    \A c \in Calls : calls[c] # Idle /\ calls[c].cached # None =>
        IsAnswer(calls[c].cached, calls[c].asking, calls[c].day)

\* The stored quote of a currency is none that was superseded when the call began.
Fresh(q, since, x, day) ==
    since[x] > 0 =>
        /\ <<x, CNY, day>> \in DOMAIN q
        /\ \E n \in since[x]..MaxQuotes[x] :
              q[<<x, CNY, day>>].rate = normalizeBocRate(x, day, n)

\* The currencies a call has asked for
Asked(r) == ({r.base} \cup (Holdings \ r.todo)) \cap Foreign

\* What a lone call has done, and what it waits for: the row it read is still the stored
\* one, because no other call has written since.
LoneCall(q, since, r) ==
    /\ \A x \in Foreign : since[x] <= published[<<x, r.day>>]
    /\ r.stage = "answered" => since[r.asking] <= r.answer
    /\ r.cached = findCached(q, r.asking, CNY, r.day)
    /\ \A x \in Asked(r) \ {r.asking} : Fresh(q, since, x, r.day)

LoneSound ==
    lone # None =>
        /\ calls[lone.call] # Idle
        /\ \A d \in Calls \ {lone.call} : calls[d] = Idle
        /\ LoneCall(quotes, lone.since, calls[lone.call])

FreshInv == IInv /\ AnswersStored(quotes) /\ CachedAnswers /\ LoneSound

\* Two tables with the same quotes in CNY, but for one currency and day
SameBut(q, p, x, day) ==
    \A y \in Foreign, d \in Days : <<y, d>> # <<x, day>> =>
        /\ <<y, CNY, d>> \in DOMAIN p <=> <<y, CNY, d>> \in DOMAIN q
        /\ <<y, CNY, d>> \in DOMAIN q => p[<<y, CNY, d>>] = q[<<y, CNY, d>>]

SameQuotes(q, p) ==
    \A y \in Foreign, d \in Days :
        /\ <<y, CNY, d>> \in DOMAIN p <=> <<y, CNY, d>> \in DOMAIN q
        /\ <<y, CNY, d>> \in DOMAIN q => p[<<y, CNY, d>>] = q[<<y, CNY, d>>]

\* What Ask makes of the call r: it waits for a currency, with the row it has read of it.
Waits(r, s, q) ==
    /\ s.stage = "asked" /\ s.answer = 0 /\ s.day = r.day /\ s.base = r.base
    /\ r.todo \ {CNY} \subseteq s.todo
    /\ s.cached = findCached(q, s.asking, CNY, r.day)

\* Where a call is after a step: at its end, or waiting again
Onward(c, r) ==
    \E s : /\ calls' = [calls EXCEPT ![c] = s]
           /\ s = Idle \/ Waits(r, s, quotes')

LEMMA AskOnward ==
    ASSUME NEW q, NEW c \in Calls, NEW r \in Shape, NEW x, Ask(c, r, q, x)
    PROVE  /\ quotes' = q /\ Onward(c, r)
           /\ DOMAIN calls = Calls => calls'[c].asking = x
<1>1. PICK s : s = [r EXCEPT !.stage = "asked", !.asking = x, !.answer = 0,
                             !.cached = findCached(q, x, CNY, r.day)]
    OBVIOUS
<1>2. /\ s.stage = "asked" /\ s.answer = 0 /\ s.day = r.day /\ s.base = r.base
      /\ s.todo = r.todo /\ s.asking = x /\ s.cached = findCached(q, x, CNY, r.day)
    BY <1>1 DEF Shape
<1>3. calls' = [calls EXCEPT ![c] = s] /\ quotes' = q
    BY <1>1 DEF Ask
<1>4. Waits(r, s, quotes')
    BY <1>2, <1>3 DEF Waits
<1> QED BY <1>2, <1>3, <1>4 DEF Onward

LEMMA NextFetchOnward ==
    ASSUME NEW q, NEW c \in Calls, NEW r \in Shape, NextFetch(c, r, q)
    PROVE  quotes' = q /\ Onward(c, r)
<1>1. CASE r.todo = {} /\ Finish(c, q)
    BY <1>1 DEF Finish, Onward
<1>2. CASE \E x \in r.todo \ {CNY} : Ask(c, r, q, x)
    BY <1>2, AskOnward
<1> QED BY <1>1, <1>2 DEF NextFetch

\* The rest of a round writes no quote in CNY of another currency: what is stored for CNY
\* itself is its rate to the base currency.
LEMMA ProceedOnward ==
    ASSUME NEW q, Grown(q), NEW c \in Calls, NEW r, Ready(q, r), Proceed(c, r, q)
    PROVE  SameQuotes(q, quotes') /\ Onward(c, r)
<1> DEFINE key == <<CNY, r.base, r.day>>
           row == Derived(r, CnyIdentity)
           p == putCached(q, key, row)
<1>0. r \in Shape
    BY DEF Ready
<1>1. CASE NextFetch(c, r, q)
    BY <1>0, <1>1, NextFetchOnward DEF SameQuotes
<1>2. CASE CNY \in r.todo /\ ~Storable(q, key, row) /\ Finish(c, q)
    BY <1>2 DEF Finish, SameQuotes, Onward
<1>3. CASE CNY \in r.todo /\ Storable(q, key, row) /\ NextFetch(c, Without(r, CNY), p)
    <2>1. r.base # CNY /\ r.day \in Days
        BY <1>3 DEF Ready, Shape
    <2>2. SourceSound(q, r, CNY, CnyIdentity)
        BY <2>1, IdentityIsQuoted DEF SourceSound
    <2>3. RowSound(q, key, row)
        BY <2>2, DerivedSound, CurrencyAssumption
    <2>4. row \in SourceRow
        BY <2>3 DEF RowSound
    <2>5. /\ Without(r, CNY) \in Shape /\ Without(r, CNY).day = r.day
          /\ Without(r, CNY).base = r.base /\ Without(r, CNY).todo = r.todo \ {CNY}
        BY <1>0 DEF Without, Shape
    <2>6. \A y \in Foreign, d \in Days : <<y, CNY, d>> # key
        BY DEF Foreign
    <2> HIDE DEF key, row
    <2>7. DOMAIN p = DOMAIN q \cup {key} /\ \A k \in DOMAIN q \ {key} : p[k] = q[k]
        BY <2>4 DEF p, putCached, Put, SourceRow
    <2> HIDE DEF p
    <2>8. quotes' = p /\ Onward(c, Without(r, CNY))
        BY <1>3, <2>5, NextFetchOnward
    <2>9. SameQuotes(q, quotes')
        BY <2>6, <2>7, <2>8 DEF SameQuotes
    <2>10. Onward(c, r)
        BY <2>5, <2>8 DEF Onward, Waits
    <2> QED BY <2>9, <2>10
<1> QED BY <1>1, <1>2, <1>3 DEF Proceed

LEMMA SameGoesOn ==
    ASSUME NEW q, NEW p, NEW w, NEW x \in Foreign, NEW day \in Days, SameQuotes(p, w)
    PROVE  /\ SameBut(q, p, x, day) => SameBut(q, w, x, day)
           /\ <<x, CNY, day>> \in DOMAIN p <=> <<x, CNY, day>> \in DOMAIN w
           /\ <<x, CNY, day>> \in DOMAIN p => w[<<x, CNY, day>>] = p[<<x, CNY, day>>]
BY DEF SameBut, SameQuotes

\* The row of a key is that of another table, if there is one.
SameAt(q, p, key) ==
    /\ key \in DOMAIN p <=> key \in DOMAIN q
    /\ key \in DOMAIN q => p[key] = q[key]

\* The stored quote in CNY of the currency a call has asked for, when the answer is in
\* the table p: it is the answer's, or a 304 has left it alone.
AnswerIn(r, p) ==
    LET key == <<r.asking, CNY, r.day>>
    IN  \/ (r.answer = 0 \/ NotModified(r)) /\ SameAt(quotes, p, key)
        \/ /\ r.answer # 0 /\ key \in DOMAIN p
           /\ p[key].rate = Source(r).rate /\ p[key].etag = Source(r).etag

LEMMA AnswerGoesOn ==
    ASSUME NEW r, r.asking \in Foreign, r.day \in Days, NEW p, NEW w,
           AnswerIn(r, p), SameBut(quotes, p, r.asking, r.day), SameQuotes(p, w)
    PROVE  AnswerIn(r, w) /\ SameBut(quotes, w, r.asking, r.day)
<1> DEFINE key == <<r.asking, CNY, r.day>>
<1>1. (key \in DOMAIN p <=> key \in DOMAIN w) /\ (key \in DOMAIN p => w[key] = p[key])
    BY DEF SameQuotes
<1>2. SameBut(quotes, w, r.asking, r.day)
    BY SameGoesOn
<1> QED BY <1>1, <1>2 DEF AnswerIn, SameAt

\* What fetchCnyRate makes of an answer
LEMMA ReceivedAnswer ==
    ASSUME IInv, NEW c \in Calls, calls[c] # Idle, calls[c].answer # 0
    PROVE  /\ AnswerIn(calls[c], Received(calls[c]))
           /\ SameBut(quotes, Received(calls[c]), calls[c].asking, calls[c].day)
<1> DEFINE r == calls[c]
           key == <<r.asking, CNY, r.day>>
<1>1. CASE NotModified(r)
    BY <1>1 DEF Received, AnswerIn, SameAt, SameBut
<1>2. CASE ~NotModified(r)
    <2>1. Source(r) \in SourceRow
        BY ReceivedSound
    <2>2. Received(r) = putCached(quotes, key, Source(r))
        BY <1>2 DEF Received
    <2>3. /\ DOMAIN Received(r) = DOMAIN quotes \cup {key}
          /\ Received(r)[key].rate = Source(r).rate /\ Received(r)[key].etag = Source(r).etag
          /\ \A k \in DOMAIN quotes \ {key} : Received(r)[k] = quotes[k]
        BY <2>1, <2>2 DEF putCached, Put, SourceRow
    <2>4. AnswerIn(r, Received(r))
        BY <2>3 DEF AnswerIn
    <2>5. SameBut(quotes, Received(r), r.asking, r.day)
        BY <2>3 DEF SameBut
    <2> QED BY <2>4, <2>5
<1> QED BY <1>1, <1>2

\* An answer writes the quote in CNY of its own currency and day and of no other, whichever
\* way the round goes on.
LEMMA ReceiveOnward ==
    ASSUME IInv, NEW c \in Calls, Receive(c)
    PROVE  /\ AnswerIn(calls[c], quotes')
           /\ SameBut(quotes, quotes', calls[c].asking, calls[c].day)
           /\ Onward(c, Without(calls[c], calls[c].asking))
<1> DEFINE r == calls[c]
           x == r.asking
           q == Received(r)
           key == <<x, r.base, r.day>>
           row == Derived(r, Source(r))
           p == putCached(q, key, row)
           b == [r EXCEPT !.baseRate = Source(r)]
           own == <<x, CNY, r.day>>
<1>1. r # Idle /\ LoneTyped
    BY WatchedTyped DEF Receive, Idle
<1>2. r \in Waiting /\ CallSound(quotes, r) /\ TableSound(quotes)
    BY <1>1, InvariantParts DEF TypeOK, CarriedRates
<1>3. /\ r \in Shape /\ r.base \notin r.todo /\ x \in Foreign /\ x \in Currencies /\ x # CNY
      /\ r.day \in Days /\ r.base \in Currencies
    BY <1>2 DEF Waiting, Shape, Foreign, CallSound
<1>4. Grown(quotes)
    BY <1>2 DEF Grown, Receive
<1>5. ~ForBase(r) => Ready(quotes, r)
    BY <1>2, <1>3 DEF ForBase, Ready, CallSound
<1>6. r.answer # 0 =>
          /\ Grown(q) /\ Source(r) \in SourceRow
          /\ IsQuoted(Source(r).rate, x, CNY, r.day) /\ Recorded(q, Source(r).id)
    BY <1>1, <1>4, ReceivedSound DEF Grown
<1>7. r.answer # 0 => AnswerIn(r, q) /\ SameBut(quotes, q, x, r.day)
    BY <1>1, ReceivedAnswer
<1>8. r.answer = 0 => AnswerIn(r, quotes) /\ SameBut(quotes, quotes, x, r.day)
    BY DEF AnswerIn, SameAt, SameBut
<1>9. /\ Without(r, x) \in Shape /\ Without(r, x).day = r.day
      /\ Without(r, x).base = r.base /\ Without(r, x).todo = r.todo \ {x}
    BY <1>3 DEF Without, Shape
<1>10. CASE r.answer = 0 /\ ForBase(r) /\ Finish(c, quotes)
    BY <1>8, <1>10 DEF Finish, Onward
<1>11. CASE r.answer = 0 /\ ~ForBase(r) /\ Proceed(c, Without(r, x), quotes)
    <2>1. Ready(quotes, Without(r, x))
        BY <1>5, <1>11, ReadyGrows
    <2>2. SameQuotes(quotes, quotes') /\ Onward(c, Without(r, x))
        BY <1>4, <1>11, <2>1, ProceedOnward
    <2> QED BY <1>3, <1>8, <1>11, <2>2, AnswerGoesOn
<1>12. CASE r.answer # 0 /\ ForBase(r) /\ Proceed(c, b, q)
    <2>1. /\ b.base = r.base /\ b.todo = r.todo /\ b.baseRate = Source(r) /\ b.day = r.day
          /\ b \in Shape
        BY <1>3, <1>6, <1>12 DEF Shape
    <2>2. r.base # CNY
        BY <1>3, <1>12 DEF ForBase
    <2> HIDE DEF b, q
    <2>3. Ready(q, b)
        BY <1>3, <1>6, <1>12, <2>1, <2>2 DEF Ready, BaseRateSound, ForBase
    <2>4. SameQuotes(q, quotes') /\ Onward(c, b)
        BY <1>6, <1>12, <2>3, ProceedOnward
    <2>5. Onward(c, Without(r, x))
        BY <1>9, <2>1, <2>4 DEF Onward, Waits
    <2> QED BY <1>3, <1>7, <1>12, <2>4, <2>5, AnswerGoesOn
<1>13. CASE r.answer # 0 /\ ~ForBase(r) /\ ~Storable(q, key, row) /\ Finish(c, q)
    BY <1>7, <1>13 DEF Finish, Onward
<1>14. CASE r.answer # 0 /\ ~ForBase(r) /\ Proceed(c, Without(r, x), p)
    <2> HIDE DEF q
    <2>1. Grown(q) /\ Ready(quotes, r) /\ DOMAIN quotes \subseteq DOMAIN q
        BY <1>5, <1>6, <1>14 DEF Grown
    <2>2. Ready(q, r)
        BY <2>1, ReadyGrows
    <2>3. SourceSound(q, r, x, Source(r))
        BY <1>6, <1>14 DEF SourceSound
    <2>4. RowSound(q, key, row)
        BY <1>3, <2>1, <2>2, <2>3, DerivedSound
    <2>5. row \in SourceRow
        BY <2>4 DEF RowSound
    <2>6. r.base = CNY => key = own /\ row = Source(r)
        BY DEF Derived
    <2>7. r.base # CNY => \A y, d : <<y, CNY, d>> # key
        OBVIOUS
    <2>8. \A y, d : <<y, d>> # <<x, r.day>> => <<y, CNY, d>> # key
        OBVIOUS
    <2> HIDE DEF row
    <2>9. TableSound(p) /\ DOMAIN q \subseteq DOMAIN p
        BY <2>1, <2>4, PutSound DEF Grown
    <2>10. /\ DOMAIN p = DOMAIN q \cup {key}
           /\ p[key].rate = row.rate /\ p[key].etag = row.etag
           /\ \A k \in DOMAIN q \ {key} : p[k] = q[k]
        BY <2>5 DEF putCached, Put, SourceRow
    <2> HIDE DEF p
    <2>11. SameBut(quotes, p, x, r.day)
        <3> HIDE DEF key
        <3> QED BY <1>7, <1>14, <2>8, <2>10 DEF SameBut
    <2>12. AnswerIn(r, p)
        <3>1. CASE r.base = CNY
            BY <1>14, <2>6, <2>10, <3>1 DEF AnswerIn
        <3>2. CASE r.base # CNY
            <4>1. AnswerIn(r, q)
                BY <1>7, <1>14
            <4>2. own # key
                BY <2>7, <3>2
            <4>3. (own \in DOMAIN p <=> own \in DOMAIN q) /\ (own \in DOMAIN q => p[own] = q[own])
                BY <2>10, <4>2
            <4> QED BY <4>1, <4>3 DEF AnswerIn, SameAt
        <3> QED BY <3>1, <3>2
    <2> HIDE DEF key
    <2>13. Grown(p) /\ Ready(p, Without(r, x))
        BY <2>1, <2>2, <2>9, ReadyGrows DEF Grown
    <2>14. SameQuotes(p, quotes') /\ Onward(c, Without(r, x))
        BY <1>14, <2>13, ProceedOnward
    <2> QED BY <1>3, <2>11, <2>12, <2>14, AnswerGoesOn
<1> QED BY <1>10, <1>11, <1>12, <1>13, <1>14 DEF Receive

\* A new call: what it begins with is in Waits, and it asks for its base currency first.
LEMMA OverviewOnward ==
    ASSUME IInv, NEW c \in Calls, NEW day \in Days, Overview(c, day)
    PROVE  /\ SameQuotes(quotes, quotes')
           /\ \E r : /\ r.day = day /\ r.base = settings.base /\ Onward(c, r)
                     /\ r.todo = Holdings \ {settings.base}
           /\ settings.base # CNY /\ calls'[c] # Idle => calls'[c].asking = settings.base
<1>1. PICK r : r = [stage |-> "asked", day |-> day, base |-> settings.base,
                    todo |-> Holdings \ {settings.base}, baseRate |-> CnyIdentity,
                    asking |-> settings.base, cached |-> None, answer |-> 0]
    OBVIOUS
<1>2. TypeOK /\ settings.base \in Currencies /\ DOMAIN calls = Calls
    BY DEF IInv, TypeOK
<1>3. /\ r \in Shape /\ r.base = settings.base /\ r.base \notin r.todo /\ r.day = day
      /\ r.todo = Holdings \ {settings.base}
    BY <1>1, <1>2 DEF Shape
<1>4. Grown(quotes)
    BY InvariantParts DEF Grown, Overview
<1>5. settings.base = CNY => Ready(quotes, r)
    BY <1>1, <1>3 DEF Ready, BaseRateSound
<1>6. \/ Finish(c, quotes)
      \/ settings.base = CNY /\ Proceed(c, r, quotes)
      \/ settings.base # CNY /\ Ask(c, r, quotes, settings.base)
    BY <1>1 DEF Overview
<1>7. CASE Finish(c, quotes)
    BY <1>2, <1>3, <1>7 DEF Finish, SameQuotes, Onward
<1>8. CASE settings.base = CNY /\ Proceed(c, r, quotes)
    BY <1>3, <1>4, <1>5, <1>8, ProceedOnward
<1>9. CASE settings.base # CNY /\ Ask(c, r, quotes, settings.base)
    BY <1>2, <1>3, <1>9, AskOnward DEF SameQuotes
<1> QED BY <1>6, <1>7, <1>8, <1>9

\* What a waiting call has read is a row that is the answer of its etag.
LEMMA CachedKept ==
    ASSUME IInv, IInv', AnswersStored(quotes)', CachedAnswers, NEW c \in Calls, NEW r,
           Onward(c, r)
    PROVE  CachedAnswers'
<1>1. PICK s : calls' = [calls EXCEPT ![c] = s] /\ (s = Idle \/ Waits(r, s, quotes'))
    BY DEF Onward
<1>2. calls'[c] = s /\ \A d \in Calls \ {c} : calls'[d] = calls[d]
    BY <1>1 DEF IInv, TypeOK
<1>3. ASSUME s # Idle, s.cached # None PROVE IsAnswer(s.cached, s.asking, s.day)
    <2>1. s.asking \in Foreign /\ s.day \in Days
        BY <1>2, <1>3 DEF IInv, TypeOK, Waiting
    <2>2. s.cached = findCached(quotes', s.asking, CNY, s.day)
        BY <1>1, <1>3 DEF Waits
    <2>3. <<s.asking, CNY, s.day>> \in DOMAIN quotes'
             /\ s.cached = quotes'[<<s.asking, CNY, s.day>>]
        BY <1>3, <2>2 DEF findCached
    <2> QED BY <2>1, <2>3 DEF AnswersStored
<1>4. \A d \in Calls : calls'[d] # Idle /\ calls'[d].cached # None
                          => IsAnswer(calls'[d].cached, calls'[d].asking, calls'[d].day)
    BY <1>2, <1>3 DEF CachedAnswers
<1> QED BY <1>4 DEF CachedAnswers, IsAnswer, normalizeBocRate

\* The row a call makes of an answer is the answer of its etag.
LEMMA SourceIsAnswer ==
    ASSUME IInv, CachedAnswers, NEW c \in Calls, calls[c] # Idle, calls[c].answer # 0
    PROVE  /\ IsAnswer(Source(calls[c]), calls[c].asking, calls[c].day)
           /\ Source(calls[c]).etag = calls[c].answer
<1>1. CASE NotModified(calls[c])
    BY <1>1 DEF CachedAnswers, NotModified, Source
<1>2. CASE ~NotModified(calls[c])
    BY <1>2 DEF Source, IsAnswer
<1> QED BY <1>1, <1>2

LEMMA AnswersKept ==
    ASSUME IInv, AnswersStored(quotes), CachedAnswers, NEW c \in Calls, Receive(c)
    PROVE  AnswersStored(quotes')
<1> DEFINE r == calls[c]
           own == <<r.asking, CNY, r.day>>
<1>1. r # Idle /\ r \in Waiting
    BY DEF Receive, Idle, IInv, TypeOK
<1>2. AnswerIn(r, quotes') /\ SameBut(quotes, quotes', r.asking, r.day)
    BY ReceiveOnward
<1>3. ASSUME NEW y \in Foreign, NEW d \in Days, <<y, CNY, d>> \in DOMAIN quotes'
      PROVE  IsAnswer(quotes'[<<y, CNY, d>>], y, d)
    <2>1. CASE <<y, d>> # <<r.asking, r.day>>
        BY <1>2, <1>3, <2>1 DEF SameBut, AnswersStored
    <2>2. CASE y = r.asking /\ d = r.day
        <3>1. CASE SameAt(quotes, quotes', own)
            BY <1>3, <2>2, <3>1 DEF SameAt, AnswersStored
        <3>2. CASE /\ r.answer # 0 /\ quotes'[own].rate = Source(r).rate
                   /\ quotes'[own].etag = Source(r).etag
            BY <1>1, <2>2, <3>2, SourceIsAnswer DEF IsAnswer
        <3> QED BY <1>2, <3>1, <3>2 DEF AnswerIn
    <2> QED BY <2>1, <2>2
<1> QED BY <1>3 DEF AnswersStored

\* What a lone call is after a step
LEMMA LoneCallThen ==
    ASSUME NEW s, calls'[lone'.call] = s,
           \A x \in Foreign : lone'.since[x] <= published'[<<x, s.day>>],
           s.stage = "answered" => lone'.since[s.asking] <= s.answer,
           s.cached = findCached(quotes', s.asking, CNY, s.day),
           \A x \in Asked(s) \ {s.asking} : Fresh(quotes', lone'.since, x, s.day)
    PROVE  LoneCall(quotes, lone.since, calls[lone.call])'
<1>1. \A x \in Foreign : lone'.since[x] <= published'[<<x, calls'[lone'.call].day>>]
    OBVIOUS
<1>2. calls'[lone'.call].stage = "answered"
        => lone'.since[calls'[lone'.call].asking] <= calls'[lone'.call].answer
    OBVIOUS
<1>3. (calls[lone.call].cached = findCached(quotes, calls[lone.call].asking, CNY,
                                            calls[lone.call].day))'
    BY DEF findCached
<1>4. (\A x \in Asked(calls[lone.call]) \ {calls[lone.call].asking} :
          Fresh(quotes, lone.since, x, calls[lone.call].day))'
    BY DEF Asked, Fresh, normalizeBocRate
<1> QED BY <1>1, <1>2, <1>3, <1>4 DEF LoneCall

\* After its answer every currency a lone call has asked for has a fresh quote.
LEMMA ReceiveFresh ==
    ASSUME FreshInv, NEW c \in Calls, Receive(c), lone # None, lone.call = c
    PROVE  \A x \in Asked(calls[c]) \cup {calls[c].asking} :
              Fresh(quotes', lone.since, x, calls[c].day)
<1> DEFINE r == calls[c]
           own == <<r.asking, CNY, r.day>>
<1>1. r # Idle /\ r \in Waiting /\ IInv /\ TypeOK /\ r.stage = "answered"
    BY DEF Receive, Idle, IInv, TypeOK, FreshInv
<1>2. r.asking \in Foreign /\ r.day \in Days /\ lone.since \in [Foreign -> Nat]
    BY <1>1 DEF Waiting, TypeOK
<1>3. AnswerIn(r, quotes') /\ SameBut(quotes, quotes', r.asking, r.day)
    BY <1>1, ReceiveOnward
<1>4. LoneCall(quotes, lone.since, r)
    BY DEF FreshInv, LoneSound
<1>5. ASSUME NEW x \in Asked(r) \ {r.asking}
      PROVE  Fresh(quotes', lone.since, x, r.day)
    <2>1. Fresh(quotes, lone.since, x, r.day) /\ x \in Foreign
        BY <1>4 DEF LoneCall, Asked
    <2>2. <<x, CNY, r.day>> \in DOMAIN quotes =>
             /\ <<x, CNY, r.day>> \in DOMAIN quotes'
             /\ quotes'[<<x, CNY, r.day>>] = quotes[<<x, CNY, r.day>>]
        BY <1>2, <1>3, <2>1 DEF SameBut
    <2> QED BY <2>1, <2>2 DEF Fresh
<1>6. Fresh(quotes', lone.since, r.asking, r.day)
    <2> SUFFICES ASSUME lone.since[r.asking] > 0
                 PROVE  /\ own \in DOMAIN quotes'
                        /\ \E n \in lone.since[r.asking]..MaxQuotes[r.asking] :
                              quotes'[own].rate = normalizeBocRate(r.asking, r.day, n)
        BY DEF Fresh
    <2>1. /\ r.answer \in Nat /\ lone.since[r.asking] \in Nat /\ MaxQuotes[r.asking] \in Nat
          /\ published[<<r.asking, r.day>>] \in Nat
          /\ published[<<r.asking, r.day>>] <= MaxQuotes[r.asking]
        BY <1>1, <1>2, BoundAssumption DEF Waiting, TypeOK
    <2>2. lone.since[r.asking] <= r.answer /\ r.answer <= published[<<r.asking, r.day>>]
        BY <1>1, <1>4 DEF LoneCall, IInv, CarriedRates, CallSound
    <2>3. r.answer \in lone.since[r.asking]..MaxQuotes[r.asking] /\ r.answer # 0
        BY <2>1, <2>2
    <2>4. IsAnswer(Source(r), r.asking, r.day) /\ Source(r).etag = r.answer
        BY <1>1, <2>3, SourceIsAnswer DEF FreshInv
    <2>5. CASE NotModified(r) /\ SameAt(quotes, quotes', own)
        <3>1. r.cached # None /\ r.cached = findCached(quotes, r.asking, CNY, r.day)
                 /\ Source(r) = r.cached
            BY <1>4, <2>5 DEF LoneCall, NotModified, Source
        <3>2. own \in DOMAIN quotes /\ quotes[own] = Source(r)
            BY <3>1 DEF findCached
        <3>3. own \in DOMAIN quotes' /\ quotes'[own] = Source(r)
            BY <2>5, <3>2 DEF SameAt
        <3> QED BY <2>3, <2>4, <3>3 DEF IsAnswer
    <2>6. CASE own \in DOMAIN quotes' /\ quotes'[own].rate = Source(r).rate
        BY <2>3, <2>4, <2>6 DEF IsAnswer
    <2> QED BY <1>3, <2>3, <2>5, <2>6 DEF AnswerIn
<1> QED BY <1>5, <1>6

LEMMA ReceiveLone ==
    ASSUME FreshInv, NEW c \in Calls, Receive(c)
    PROVE  LoneSound'
<1> DEFINE r == calls[c]
<1>1. /\ r # Idle /\ IInv /\ TypeOK /\ r \in Waiting
      /\ lone' = IF lone # None /\ calls'[lone.call] = Idle THEN None ELSE lone
      /\ UNCHANGED published
    BY DEF Receive, Watched, Idle, IInv, TypeOK, FreshInv
<1>2. SUFFICES ASSUME lone' # None
               PROVE  /\ calls'[lone'.call] # Idle
                      /\ \A d \in Calls \ {lone'.call} : calls'[d] = Idle
                      /\ LoneCall(quotes, lone.since, calls[lone.call])'
    BY DEF LoneSound
<1>3. /\ lone # None /\ lone' = lone /\ lone.call = c /\ calls'[c] # Idle
      /\ \A d \in Calls \ {c} : calls[d] = Idle /\ LoneCall(quotes, lone.since, r)
    BY <1>1, <1>2 DEF FreshInv, LoneSound
<1>4. lone.since \in [Foreign -> Nat]
    BY <1>1, <1>3 DEF TypeOK
<1>5. PICK s : /\ calls' = [calls EXCEPT ![c] = s]
               /\ s = Idle \/ Waits(Without(r, r.asking), s, quotes')
    BY <1>1, ReceiveOnward DEF Onward
<1>6. calls'[c] = s /\ \A d \in Calls \ {c} : calls'[d] = calls[d]
    BY <1>1, <1>5 DEF TypeOK
<1>7. Waits(Without(r, r.asking), s, quotes')
    BY <1>3, <1>5, <1>6
<1>8. /\ s.stage = "asked" /\ s.day = r.day /\ s.base = r.base
      /\ (r.todo \ {r.asking}) \ {CNY} \subseteq s.todo
      /\ s.cached = findCached(quotes', s.asking, CNY, s.day)
    BY <1>1, <1>7 DEF Waits, Without, Waiting
<1>9. Asked(s) \subseteq Asked(r) \cup {r.asking}
    BY <1>8 DEF Asked, Foreign
<1>10. \A x \in Asked(s) : Fresh(quotes', lone.since, x, s.day)
    BY <1>3, <1>8, <1>9, ReceiveFresh
<1>11. \A x \in Foreign : lone.since[x] <= published[<<x, s.day>>]
    <2>1. LoneCall(quotes, lone.since, r)
        BY <1>3 DEF FreshInv, LoneSound
    <2> QED BY <1>8, <2>1 DEF LoneCall
<1>12. s.stage # "answered"
    BY <1>8
<1>13. LoneCall(quotes, lone.since, calls[lone.call])'
    <2>1. calls'[lone'.call] = s /\ lone'.since = lone.since /\ published' = published
        BY <1>1, <1>3, <1>6
    <2> HIDE DEF r
    <2> QED BY <1>8, <1>10, <1>11, <1>12, <2>1, LoneCallThen
<1> QED BY <1>3, <1>6, <1>13

LEMMA ReceiveFreshKept ==
    ASSUME FreshInv, NEW c \in Calls, Receive(c)
    PROVE  FreshInv'
<1>1. IInv /\ IInv' /\ AnswersStored(quotes')
    BY ReceiveKept, AnswersKept DEF FreshInv
<1>2. AnswersStored(quotes)'
    BY <1>1 DEF AnswersStored, IsAnswer, normalizeBocRate
<1>3. CachedAnswers'
    BY <1>1, <1>2, ReceiveOnward, CachedKept DEF FreshInv
<1> QED BY <1>1, <1>2, <1>3, ReceiveLone DEF FreshInv

\* A new call is lone from its beginning, or is not lone at all.
LEMMA OverviewFreshKept ==
    ASSUME FreshInv, NEW c \in Calls, NEW day \in Days, Overview(c, day)
    PROVE  FreshInv'
<1>1. IInv /\ IInv' /\ TypeOK /\ UNCHANGED published
    BY OverviewKept DEF FreshInv, IInv, Overview
<1>2. SameQuotes(quotes, quotes')
    BY <1>1, OverviewOnward
<1>3. PICK r : /\ r.day = day /\ r.base = settings.base /\ Onward(c, r)
               /\ r.todo = Holdings \ {settings.base}
    BY <1>1, OverviewOnward
<1>4. PICK s : calls' = [calls EXCEPT ![c] = s] /\ (s = Idle \/ Waits(r, s, quotes'))
    BY <1>3 DEF Onward
<1>5. AnswersStored(quotes)'
    BY <1>2 DEF FreshInv, SameQuotes, AnswersStored, IsAnswer, normalizeBocRate
<1>6. CachedAnswers'
    BY <1>1, <1>3, <1>5, CachedKept DEF FreshInv
<1>7. ASSUME lone' # None
      PROVE  /\ calls'[lone'.call] # Idle
             /\ \A d \in Calls \ {lone'.call} : calls'[d] = Idle
             /\ LoneCall(quotes, lone.since, calls[lone.call])'
    <2>1. /\ \A d \in Calls : (calls'[d] # Idle) = (d = c)
          /\ lone' = [call |-> c, since |-> [x \in Foreign |-> published[<<x, day>>]]]
        BY <1>7 DEF Overview
    <2>2. /\ lone'.call = c /\ calls'[c] = s /\ s # Idle
          /\ \A x \in Foreign : lone'.since[x] = published[<<x, day>>]
        BY <1>1, <1>4, <2>1 DEF TypeOK
    <2>3. /\ s.stage = "asked" /\ s.day = day /\ s.base = settings.base
          /\ (Holdings \ {settings.base}) \ {CNY} \subseteq s.todo
          /\ s.cached = findCached(quotes', s.asking, CNY, s.day)
        BY <1>3, <1>4, <2>2 DEF Waits
    <2>4. settings.base # CNY => s.asking = settings.base
        BY <1>1, <2>2, OverviewOnward
    <2>5. Asked(s) \ {s.asking} = {}
        BY <2>3, <2>4 DEF Asked, Foreign
    <2>6. \A x \in Foreign : lone'.since[x] <= published'[<<x, s.day>>]
        BY <1>1, <2>2, <2>3 DEF TypeOK
    <2>7. s.stage # "answered"
        BY <2>3
    <2>8. LoneCall(quotes, lone.since, calls[lone.call])'
        BY <2>2, <2>3, <2>5, <2>6, <2>7, LoneCallThen
    <2> QED BY <2>1, <2>2, <2>8
<1>8. LoneSound'
    BY <1>7 DEF LoneSound
<1> QED BY <1>1, <1>5, <1>6, <1>8 DEF FreshInv

\* The provider answers with the newest quote it has.
LEMMA ServeFreshKept ==
    ASSUME FreshInv, NEW c \in Calls, Serve(c)
    PROVE  FreshInv'
<1> DEFINE r == calls[c]
<1>0. IInv /\ IInv'
    BY ServeKept DEF FreshInv
<1>1. /\ IInv /\ IInv' /\ TypeOK /\ r # Idle /\ r \in Waiting
      /\ UNCHANGED <<settings, overrides, quotes, published, lone>>
    <2>1. TypeOK /\ r # Idle
        BY <1>0 DEF IInv, Serve, Idle
    <2> QED BY <1>0, <2>1 DEF TypeOK, Serve
<1>2. PICK s : s = [r EXCEPT !.stage = "answered", !.answer = published[<<r.asking, r.day>>]]
    OBVIOUS
<1>3. /\ s.day = r.day /\ s.base = r.base /\ s.todo = r.todo /\ s.asking = r.asking
      /\ s.cached = r.cached /\ s.answer = published[<<s.asking, s.day>>] /\ s # Idle
    BY <1>1, <1>2 DEF Waiting, Idle
<1>4. calls'[c] = s /\ \A d \in Calls \ {c} : calls'[d] = calls[d]
    BY <1>1, <1>2 DEF Serve, TypeOK
<1>5. AnswersStored(quotes)'
    BY <1>1 DEF FreshInv, AnswersStored, IsAnswer, normalizeBocRate
<1>6. \A d \in Calls : calls'[d] # Idle /\ calls'[d].cached # None
                         => IsAnswer(calls'[d].cached, calls'[d].asking, calls'[d].day)
    <2>1. CachedAnswers
        BY DEF FreshInv
    <2> QED BY <1>1, <1>3, <1>4, <2>1 DEF CachedAnswers
<1>7. CachedAnswers'
    BY <1>6 DEF CachedAnswers, IsAnswer, normalizeBocRate
<1>8. ASSUME lone # None
      PROVE  /\ calls'[lone.call] # Idle
             /\ \A d \in Calls \ {lone.call} : calls'[d] = Idle
             /\ LoneCall(quotes, lone.since, calls[lone.call])'
    <2>1. lone.call = c /\ LoneCall(quotes, lone.since, r)
          /\ \A d \in Calls \ {c} : calls[d] = Idle
        BY <1>1, <1>8 DEF FreshInv, LoneSound
    <2>2. lone.since[s.asking] <= s.answer
        BY <1>1, <1>3, <2>1 DEF LoneCall, Waiting
    <2>3. LoneCall(quotes, lone.since, calls[lone.call])'
        <3>1. calls'[lone'.call] = s /\ lone' = lone /\ quotes' = quotes /\ published' = published
            BY <1>1, <1>4, <2>1
        <3>2. /\ \A x \in Foreign : lone.since[x] <= published[<<x, s.day>>]
              /\ s.cached = findCached(quotes, s.asking, CNY, s.day)
              /\ \A x \in Asked(s) \ {s.asking} : Fresh(quotes, lone.since, x, s.day)
            <4> HIDE DEF r
            <4> QED BY <1>3, <2>1 DEF LoneCall, Asked
        <3> QED BY <2>2, <3>1, <3>2, LoneCallThen
    <2> QED BY <1>3, <1>4, <2>1, <2>3
<1>9. LoneSound'
    BY <1>1, <1>8 DEF LoneSound
<1> QED BY <1>1, <1>5, <1>7, <1>9 DEF FreshInv

\* A call that fails leaves the tables alone.
LEMMA FailFreshKept ==
    ASSUME FreshInv, NEW c \in Calls, Fail(c)
    PROVE  FreshInv'
<1>0. IInv' /\ calls[c] # Idle
    BY FailKept DEF FreshInv, Fail, Idle
<1>1. /\ IInv' /\ quotes' = quotes /\ calls' = [calls EXCEPT ![c] = Idle]
      /\ calls[c] # Idle
      /\ lone' = IF lone # None /\ calls'[lone.call] = Idle THEN None ELSE lone
    BY <1>0 DEF Fail, Finish, Watched
<1>2. calls'[c] = Idle /\ \A d \in Calls \ {c} : calls'[d] = calls[d]
    BY <1>1 DEF FreshInv, IInv, TypeOK
<1>3. AnswersStored(quotes)'
    BY <1>1 DEF FreshInv, AnswersStored, IsAnswer, normalizeBocRate
<1>4. CachedAnswers'
    BY <1>2 DEF FreshInv, CachedAnswers, IsAnswer, normalizeBocRate
<1>5. lone # None => lone.call = c
    BY <1>1 DEF FreshInv, LoneSound
<1>6. lone' = None
    BY <1>1, <1>2, <1>5
<1> QED BY <1>1, <1>3, <1>4, <1>6 DEF FreshInv, LoneSound

\* Steps that leave the stored quotes and the calls alone, and take no quote back
LEMMA FreshStays ==
    ASSUME FreshInv, IInv', UNCHANGED <<quotes, calls, lone>>,
           \A x \in Foreign, d \in Days : published[<<x, d>>] <= published'[<<x, d>>]
    PROVE  FreshInv'
<1>1. AnswersStored(quotes)'
    BY DEF FreshInv, AnswersStored, IsAnswer, normalizeBocRate
<1>2. CachedAnswers'
    BY DEF FreshInv, CachedAnswers, IsAnswer, normalizeBocRate
<1>3. ASSUME lone # None
      PROVE  \A x \in Foreign : lone.since[x] <= published'[<<x, calls[lone.call].day>>]
    <2>1. /\ lone.call \in Calls /\ calls[lone.call] \in Waiting
          /\ lone.since \in [Foreign -> Nat] /\ LoneCall(quotes, lone.since, calls[lone.call])
        BY <1>3 DEF FreshInv, LoneSound, IInv, TypeOK
    <2>2. calls[lone.call].day \in Days
        BY <2>1 DEF Waiting
    <2>3. ASSUME NEW x \in Foreign
          PROVE  lone.since[x] <= published'[<<x, calls[lone.call].day>>]
        <3>1. /\ lone.since[x] \in Nat /\ published[<<x, calls[lone.call].day>>] \in Nat
              /\ published'[<<x, calls[lone.call].day>>] \in Nat
            BY <2>1, <2>2 DEF FreshInv, IInv, TypeOK
        <3>2. lone.since[x] <= published[<<x, calls[lone.call].day>>]
            BY <2>1 DEF LoneCall
        <3> QED BY <2>2, <3>1, <3>2
    <2> QED BY <2>3
<1>4. LoneSound'
    <2>1. lone # None => LoneCall(quotes, lone.since, calls[lone.call])'
        BY <1>3 DEF FreshInv, LoneSound, LoneCall, Fresh, findCached, normalizeBocRate, Asked
    <2> QED BY <2>1 DEF FreshInv, LoneSound
<1> QED BY <1>1, <1>2, <1>4 DEF FreshInv

LEMMA QuitFreshKept == FreshInv /\ Quit => FreshInv'
<1> SUFFICES ASSUME FreshInv, Quit PROVE FreshInv'
    OBVIOUS
<1>1. IInv' /\ lone' = None /\ quotes' = quotes /\ \A c \in Calls : calls'[c] = Idle
    BY QuitKept DEF Quit, FreshInv
<1>2. AnswersStored(quotes)' /\ CachedAnswers'
    BY <1>1 DEF FreshInv, AnswersStored, CachedAnswers, IsAnswer, normalizeBocRate
<1> QED BY <1>1, <1>2 DEF FreshInv, LoneSound

LEMMA FreshStep == FreshInv /\ [Next]_vars => FreshInv'
<1> SUFFICES ASSUME FreshInv, [Next]_vars PROVE FreshInv'
    OBVIOUS
<1>1. ASSUME NEW c \in Calls, NEW day \in Days, Overview(c, day) PROVE FreshInv'
    BY <1>1, OverviewFreshKept
<1>2. ASSUME NEW c \in Calls, Serve(c) PROVE FreshInv'
    BY <1>2, ServeFreshKept
<1>3. ASSUME NEW c \in Calls, Receive(c) PROVE FreshInv'
    BY <1>3, ReceiveFreshKept
<1>4. ASSUME NEW c \in Calls, Fail(c) PROVE FreshInv'
    BY <1>4, FailFreshKept
<1>5. CASE Quit
    BY <1>5, QuitFreshKept
<1>6. IInv' /\ published \in [Foreign \X Days -> Nat]
    BY StepKept DEF FreshInv, IInv, TypeOK
<1>7. UNCHANGED published =>
         \A x \in Foreign, d \in Days : published[<<x, d>>] <= published'[<<x, d>>]
    BY <1>6
<1>8. ASSUME NEW x \in Foreign, NEW day \in Days, Publish(x, day) PROVE FreshInv'
    <2>1. published' = [published EXCEPT ![<<x, day>>] = published[<<x, day>>] + 1]
          /\ UNCHANGED <<quotes, calls, lone>>
        BY <1>8 DEF Publish
    <2>2. ASSUME NEW y \in Foreign, NEW d \in Days
          PROVE  published[<<y, d>>] <= published'[<<y, d>>]
        <3>1. CASE <<y, d>> = <<x, day>>
            BY <1>6, <2>1, <3>1
        <3>2. CASE <<y, d>> # <<x, day>>
            BY <1>6, <2>1, <3>2
        <3> QED BY <3>1, <3>2
    <2> QED BY <1>6, <2>1, <2>2, FreshStays
<1>9. CASE \E base \in Currencies, v \in 0..MaxVersion : SetBaseCurrency(base, v)
    BY <1>6, <1>7, <1>9, FreshStays DEF SetBaseCurrency
<1>10. CASE \E pair \in Pairs, day \in Days :
              DeleteFxOverride(pair, day)
                \/ \E rate \in ManualRates : SaveFxOverride(pair, day, rate)
    BY <1>6, <1>7, <1>10, FreshStays DEF SaveFxOverride, DeleteFxOverride
<1>11. CASE UNCHANGED vars
    BY <1>6, <1>7, <1>11, FreshStays DEF vars
<1> QED BY <1>1, <1>2, <1>3, <1>4, <1>5, <1>8, <1>9, <1>10, <1>11 DEF Next

\* The inductive invariant of a lone refresh: besides IInv, every stored quote in CNY is the
\* one its etag names, the row a call has read is too, and while no other call writes it is
\* still the stored one.
THEOREM LoneInvariant == Spec => []FreshInv
<1>1. Init => FreshInv
    BY InitInvariant DEF Init, FreshInv, AnswersStored, CachedAnswers, LoneSound
<1> QED BY <1>1, FreshStep, PTL DEF Spec

\* A refresh that no other overlaps leaves no currency it has asked for with a quote that
\* was superseded when it began (fetchCnyRate's 304 and 200, finance-service.ts).
THEOREM LoneRefreshesAreFresh == Spec => LoneRefreshIsFresh
<1>1. ASSUME FreshInv, NEW c \in Calls, lone # None, lone.call = c, Receive(c),
             NEW x \in ({calls[c].base, calls[c].asking} \cup (Holdings \ calls[c].todo))
                          \cap Foreign,
             lone.since[x] > 0
      PROVE  \E n \in lone.since[x]..MaxQuotes[x] :
                quotes'[<<x, CNY, calls[c].day>>].rate = normalizeBocRate(x, calls[c].day, n)
    <2>1. x \in Asked(calls[c]) \cup {calls[c].asking}
        BY <1>1 DEF Asked
    <2>2. Fresh(quotes', lone.since, x, calls[c].day)
        BY <1>1, <2>1, ReceiveFresh
    <2> QED BY <1>1, <2>2 DEF Fresh
<1> DEFINE FreshReceipts ==
        \A c \in Calls : lone # None /\ lone.call = c /\ Receive(c) =>
          LET r == calls[c]
              asked == ({r.base, r.asking} \cup (Holdings \ r.todo)) \cap Foreign
          IN  \A x \in asked : lone.since[x] > 0 =>
                \E n \in lone.since[x]..MaxQuotes[x] :
                   quotes'[<<x, CNY, r.day>>].rate = normalizeBocRate(x, r.day, n)
<1>2. FreshInv => FreshReceipts
    BY <1>1
<1>3. LoneRefreshIsFresh <=> [][FreshReceipts]_vars
    BY PTL DEF LoneRefreshIsFresh
<1> QED BY <1>2, <1>3, LoneInvariant, PTL

=============================================================================
