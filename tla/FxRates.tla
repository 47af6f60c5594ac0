------------------------------ MODULE FxRates ------------------------------
(***************************************************************************)
(* Exchange rates: how an overview gets them, keeps them and uses them.    *)
(*                                                                         *)
(*   apps/desktop/src/main/finance/finance-service.ts     (overview)       *)
(*   packages/fx/src/resolver.ts, boc/client.ts, boc/normalize.ts          *)
(*   packages/application/src/queries/valuation.ts, balance-sheet.ts       *)
(*   packages/application/src/commands/manage-fx-override.ts               *)
(*   packages/storage/src/repositories/sql-fx-rate-store.ts                *)
(*                                                                         *)
(* The provider quotes every currency in CNY and may publish a new quote   *)
(* of a day at any time.  An overview asks for the base currency, then for *)
(* each currency held, stores each answer and the rate derived from the    *)
(* two, and values the accounts with what is stored.  The database driver  *)
(* is synchronous, so a call is only interleaved with others while it      *)
(* waits for the network.  Rates are fractions and are not reduced.        *)
(***************************************************************************)
EXTENDS Integers

CONSTANTS
    Currencies,   \* currency codes
    CNY,          \* the one the provider quotes in
    DefaultBase,  \* the base currency of a new workspace
    Holdings,     \* the currencies of the asset and liability accounts
    Balance,      \* what the accounts of each of them hold, in minor units
    Days,         \* dates an overview may be asked for
    Price,        \* CNY for 100 units: of a currency, on a day, in its n-th quote
    Pairs,        \* pairs of currencies the user may give a rate for
    ManualRates,  \* the rates the user may give
    Calls,        \* overview calls that may overlap
    None,         \* no row, no value
    MaxQuotes,    \* bound: quotes the provider publishes of each currency in a day
    MaxVersion    \* bound: versions of the settings and of an override

Foreign == Currencies \ {CNY}
Rate == [num : Nat \ {0}, den : Nat \ {0}]

ASSUME CurrencyAssumption ==
    /\ CNY \in Currencies /\ DefaultBase \in Currencies
    /\ Holdings \subseteq Currencies
ASSUME BalanceAssumption == Balance \in [Holdings -> Int]
ASSUME NoneAssumption == None \notin Rate
ASSUME BoundAssumption == MaxQuotes \in [Foreign -> Nat] /\ MaxVersion \in Nat
ASSUME PriceAssumption ==
    \A x \in Foreign, day \in Days : \A n \in 1..MaxQuotes[x] : Price[<<x, day, n>>] \in Nat \ {0}
ASSUME ManualAssumption ==
    /\ ManualRates \subseteq Rate
    /\ \A p \in Pairs : p \in Currencies \X Currencies /\ p[1] # p[2]

VARIABLES
    settings,   \* finance_settings: the base currency and the row's version
    overrides,  \* fx_override: from, to and day |-> rate, tombstone, version
    quotes,     \* fx_quote: from, to and day |-> id, rate, etag
    published,  \* the provider: how many quotes of a currency and day are out
    calls,      \* the overviews waiting for the network
    lone        \* history: the call that overlaps no other, and what was out before it

vars == <<settings, overrides, quotes, published, calls, lone>>

Idle == [stage |-> "idle"]
Put(f, x, y) == [z \in DOMAIN f \cup {x} |-> IF z = x THEN y ELSE f[z]]

-----------------------------------------------------------------------------
(* Rates *)

\* normalizeBocRate: the provider's price is for 100 units
normalizeBocRate(x, day, n) == [num |-> Price[<<x, day, n>>], den |-> 100]

CnyIdentity == [rate |-> [num |-> 1, den |-> 1], id |-> None, etag |-> 0]

\* A bug to check against: the two prices are multiplied.
CrossMultiplied(fromCny, toCny) ==
    [num |-> fromCny.num * toCny.num, den |-> fromCny.den * toCny.den]

crossViaCny(fromCny, toCny) ==
    [num |-> fromCny.num * toCny.den, den |-> fromCny.den * toCny.num]

\* A bug to check against: a tie is rounded up.
DivideHalfUp(n, d) ==
    LET positive == IF n < 0 THEN -n ELSE n
        rounded == (positive + d \div 2) \div d
    IN  IF n < 0 THEN -rounded ELSE rounded

\* To the nearest minor unit, a tie to the even one, and away from the sign.
DivideHalfEven(n, d) ==
    LET positive == IF n < 0 THEN -n ELSE n
        q == positive \div d
        r == positive % d
        up == r * 2 > d \/ (r * 2 = d /\ q % 2 = 1)
        rounded == IF up THEN q + 1 ELSE q
    IN  IF n < 0 THEN -rounded ELSE rounded

convertMinor(minor, rate) == DivideHalfEven(minor * rate.num, rate.den)

-----------------------------------------------------------------------------
(* The stored quotes *)

findCached(q, from, to, day) ==
    IF <<from, to, day>> \in DOMAIN q THEN q[<<from, to, day>>] ELSE None

\* fx_quote has two keys: the quote's id, and from, to and day.  The INSERT has an
\* ON CONFLICT clause for the second one only.
Storable(q, key, row) ==
    key \in DOMAIN q \/ \A k \in DOMAIN q : q[k].id # row.id

\* A row that is there keeps its id.
putCached(q, key, row) ==
    Put(q, key, IF key \in DOMAIN q THEN [row EXCEPT !.id = q[key].id] ELSE row)

\* The manual rate, unless its row is marked as deleted.
findManual(from, to, day) ==
    LET key == <<from, to, day>>
    IN  IF key \in DOMAIN overrides /\ ~overrides[key].deleted THEN overrides[key].rate
        ELSE None

\* FxResolver.resolve and ValuationService.value: a manual rate, else a stored quote
Resolved(q, base, day, x) ==
    LET manual == findManual(x, base, day)
        cached == findCached(q, x, base, day)
    IN  IF manual # None THEN manual
        ELSE IF cached # None THEN cached.rate ELSE None

Valued(q, base, day, x) ==
    LET rate == Resolved(q, base, day, x)
    IN  IF x = base THEN Balance[x]
        ELSE IF rate = None THEN None ELSE convertMinor(Balance[x], rate)

-----------------------------------------------------------------------------
(* The overview: refreshOnlineRates, then the balance sheet *)

\* The refresh is over, done or failed (its error is dropped), and the overview returns
\* what Valued says of the tables and the base currency as they are now.
Finish(c, q) ==
    /\ calls' = [calls EXCEPT ![c] = Idle]
    /\ quotes' = q

\* fetchCnyRate up to its await: the stored quote goes along with the request
Ask(c, r, q, x) ==
    /\ calls' = [calls EXCEPT ![c] =
                    [r EXCEPT !.stage = "asked", !.asking = x, !.answer = 0,
                              !.cached = findCached(q, x, CNY, r.day)]]
    /\ quotes' = q

\* The rate to the base currency the call began with, under the first of its quotes' ids
Derived(r, source) ==
    IF r.base = CNY THEN source
    ELSE [rate |-> crossViaCny(source.rate, r.baseRate.rate),
          id |-> IF source.id = None THEN r.baseRate.id ELSE source.id,
          etag |-> source.etag]

\* A bug to check against: the currency stays in the loop.
WithoutNone(r, x) == r

Without(r, x) == [r EXCEPT !.todo = @ \ {x}]

NextFetch(c, r, q) ==
    \/ r.todo = {} /\ Finish(c, q)
    \/ \E x \in r.todo \ {CNY} : Ask(c, r, q, x)

\* The next currency, in the order of the accounts' names, which is any.  CNY itself
\* needs no answer; a rate that cannot be stored ends the loop.
Proceed(c, r, q) ==
    \/ NextFetch(c, r, q)
    \/ LET key == <<CNY, r.base, r.day>>
           row == Derived(r, CnyIdentity)
       IN  /\ CNY \in r.todo
           /\ \/ Storable(q, key, row) /\ NextFetch(c, Without(r, CNY), putCached(q, key, row))
              \/ ~Storable(q, key, row) /\ Finish(c, q)

Overview(c, day) ==
    LET base == settings.base
        r == [stage |-> "asked", day |-> day, base |-> base, todo |-> Holdings \ {base},
              baseRate |-> CnyIdentity, asking |-> base, cached |-> None, answer |-> 0]
    IN  /\ calls[c] = Idle
        /\ \/ r.todo = {} /\ Finish(c, quotes)
           \/ r.todo # {} /\ base = CNY /\ Proceed(c, r, quotes)
           \/ r.todo # {} /\ base # CNY /\ Ask(c, r, quotes, base)
        /\ lone' = IF \A d \in Calls : (calls'[d] # Idle) = (d = c)
                   THEN [call |-> c, since |-> [x \in Foreign |-> published[<<x, day>>]]]
                   ELSE None
        /\ UNCHANGED <<settings, overrides, published>>

\* The provider's side of a request: what it answers with is the newest quote it has,
\* or none (0), and it is on its way back.
Serve(c) ==
    /\ calls[c].stage = "asked"
    /\ calls' = [calls EXCEPT ![c].stage = "answered",
                              ![c].answer = published[<<calls[c].asking, calls[c].day>>]]
    /\ UNCHANGED <<settings, overrides, quotes, published, lone>>

\* A bug to check against: any cached row answers the request.
CachedIsEnough(r) == r.cached # None

\* The answer of a 304: the row read before the request, under the id it has.
NotModified(r) == r.cached # None /\ r.cached.etag = r.answer

\* fetchCnyRate after its await, and the rest of the loop's round.  The provider answers for
\* the currency and the day it was asked for: the first row stands in for no other
\* (finance-service.ts:132), and no rate is of another pair than its request's (:151).
Source(r) ==
    IF NotModified(r) THEN r.cached
    ELSE [rate |-> normalizeBocRate(r.asking, r.day, r.answer),
          id |-> <<r.asking, r.day, r.answer>>, etag |-> r.answer]

Received(r) ==
    IF NotModified(r) THEN quotes
    ELSE putCached(quotes, <<r.asking, CNY, r.day>>, Source(r))

\* History: the lone call is watched until it ends.
Watched == lone' = IF lone # None /\ calls'[lone.call] = Idle THEN None ELSE lone

\* The first answer is the base currency's.
ForBase(r) == r.asking = r.base

Receive(c) ==
    LET r == calls[c]
        x == r.asking
        q == Received(r)
        key == <<x, r.base, r.day>>
        row == Derived(r, Source(r))
    IN  /\ r.stage = "answered"
        /\ \/ r.answer = 0 /\ ForBase(r) /\ Finish(c, quotes)
           \/ r.answer = 0 /\ ~ForBase(r) /\ Proceed(c, Without(r, x), quotes)
           \/ r.answer # 0 /\ ForBase(r) /\ Proceed(c, [r EXCEPT !.baseRate = Source(r)], q)
           \/ /\ r.answer # 0 /\ ~ForBase(r)
              /\ \/ Storable(q, key, row) /\ Proceed(c, Without(r, x), putCached(q, key, row))
                 \/ ~Storable(q, key, row) /\ Finish(c, q)
        /\ Watched
        /\ UNCHANGED <<settings, overrides, published>>

\* The request times out, is refused or answers with something that is no rate.
Fail(c) ==
    /\ calls[c].stage \in {"asked", "answered"}
    /\ Finish(c, quotes)
    /\ Watched
    /\ UNCHANGED <<settings, overrides, published>>

-----------------------------------------------------------------------------
(* The user, the provider, and the end of the process *)

\* setBaseCurrency, with the version the user interface last saw
SetBaseCurrency(base, expectedVersion) ==
    /\ settings.version = expectedVersion
    /\ settings.version < MaxVersion
    /\ settings' = [base |-> base, version |-> expectedVersion + 1]
    /\ UNCHANGED <<overrides, quotes, published, calls, lone>>

VersionOf(key) == IF key \in DOMAIN overrides THEN overrides[key].version ELSE -1

\* SaveFxOverrideCommand: a deleted override comes back under a new version.
SaveFxOverride(pair, day, rate) ==
    LET key == <<pair[1], pair[2], day>>
    IN  /\ VersionOf(key) < MaxVersion
        /\ overrides' = Put(overrides, key, [rate |-> rate, deleted |-> FALSE,
                                             version |-> VersionOf(key) + 1])
        /\ UNCHANGED <<settings, quotes, published, calls, lone>>

DeleteFxOverride(pair, day) ==
    LET key == <<pair[1], pair[2], day>>
    IN  /\ key \in DOMAIN overrides /\ ~overrides[key].deleted
        /\ VersionOf(key) < MaxVersion
        /\ overrides' = [overrides EXCEPT ![key].deleted = TRUE, ![key].version = @ + 1]
        /\ UNCHANGED <<settings, quotes, published, calls, lone>>

Publish(x, day) ==
    /\ published[<<x, day>>] < MaxQuotes[x]
    /\ published' = [published EXCEPT ![<<x, day>>] = @ + 1]
    /\ UNCHANGED <<settings, overrides, quotes, calls, lone>>

\* Every statement is its own transaction: what is stored stays.
Quit ==
    /\ \E c \in Calls : calls[c] # Idle
    /\ calls' = [c \in Calls |-> Idle]
    /\ lone' = None
    /\ UNCHANGED <<settings, overrides, quotes, published>>

-----------------------------------------------------------------------------
Init ==
    /\ settings = [base |-> DefaultBase, version |-> 0]
    /\ overrides = [k \in {} |-> None] /\ quotes = [k \in {} |-> None]
    /\ published = [z \in Foreign \X Days |-> 0]
    /\ calls = [c \in Calls |-> Idle]
    /\ lone = None

Next ==
    \/ \E c \in Calls, day \in Days : Overview(c, day)
    \/ \E c \in Calls : Serve(c) \/ Receive(c) \/ Fail(c)
    \/ \E base \in Currencies, v \in 0..MaxVersion : SetBaseCurrency(base, v)
    \/ \E pair \in Pairs, day \in Days, rate \in ManualRates : SaveFxOverride(pair, day, rate)
    \/ \E pair \in Pairs, day \in Days : DeleteFxOverride(pair, day)
    \/ \E x \in Foreign, day \in Days : Publish(x, day)
    \/ Quit

\* A request is given up after seven seconds (AbortSignal.timeout).
Fairness == \A c \in Calls : WF_vars(Serve(c) \/ Receive(c) \/ Fail(c))

Spec == Init /\ [][Next]_vars
FairSpec == Spec /\ Fairness

-----------------------------------------------------------------------------
(* What must hold *)

Keys == Currencies \X Currencies \X Days
QuoteIds == Foreign \X Days \X (Nat \ {0})
SourceRow == [rate : Rate, id : QuoteIds, etag : Nat]
Waiting == [stage : {"asked", "answered"}, day : Days, base : Currencies,
            todo : SUBSET Holdings, asking : Foreign, answer : Nat,
            baseRate : SourceRow \cup {CnyIdentity}, cached : SourceRow \cup {None}]

\* The tables and the waiting calls have their types.
TypeOK ==
    /\ settings \in [base : Currencies, version : 0..MaxVersion]
    /\ DOMAIN overrides \subseteq Keys
    /\ overrides \in [DOMAIN overrides ->
                        [rate : Rate, deleted : BOOLEAN, version : 0..MaxVersion]]
    /\ DOMAIN quotes \subseteq Keys
    /\ quotes \in [DOMAIN quotes -> SourceRow]
    /\ published \in [Foreign \X Days -> Nat]
    /\ \A x \in Foreign, day \in Days : published[<<x, day>>] <= MaxQuotes[x]
    /\ calls \in [Calls -> Waiting \cup {Idle}]
    /\ lone \in [call : Calls, since : [Foreign -> Nat]] \cup {None}

\* What the provider has quoted for 100 units of a currency; CNY is worth itself.
Quoted(x, day) ==
    IF x = CNY THEN {100} ELSE {Price[<<x, day, n>>] : n \in 1..published[<<x, day>>]}

\* A fraction is the price of the one over the price of the other.
IsQuoted(rate, from, to, day) ==
    \E p \in Quoted(from, day), b \in Quoted(to, day) : rate.num * b = rate.den * p

\* A stored rate is always the quotient of two quotes of its own two currencies and of its
\* own day, however refreshes overlap, whatever base currency the user switches to while
\* they wait, and wherever one of them stops (refreshOnlineRates, finance-service.ts:139).
RatesAreQuoted ==
    \A k \in DOMAIN quotes : IsQuoted(quotes[k].rate, k[1], k[2], k[3])

\* The quote with an id is that of a stored rate to CNY.
Recorded(q, id) == <<id[1], CNY, id[2]>> \in DOMAIN q

\* A quote's id is in use only when the quote's own currency has its row to CNY: the
\* INSERT of fetchCnyRate itself never meets the id of another row.
IdsAreRecorded == \A k \in DOMAIN quotes : Recorded(quotes, quotes[k].id)

\* The rate to the base currency, until the answer for it has come
BaseRateSound(q, r) ==
    IF r.base = CNY THEN r.baseRate = CnyIdentity
    ELSE /\ r.baseRate \in SourceRow
         /\ IsQuoted(r.baseRate.rate, r.base, CNY, r.day)
         /\ Recorded(q, r.baseRate.id)

\* What a call carries across an await is still what its answer will be combined with:
\* the base currency's rate, and the row whose etag the request has.
CallSound(q, r) ==
    /\ r.answer <= published[<<r.asking, r.day>>]
    /\ r.cached # None => /\ IsQuoted(r.cached.rate, r.asking, CNY, r.day)
                          /\ Recorded(q, r.cached.id)
    /\ r.base \notin r.todo
    /\ r.asking # r.base => r.asking \in r.todo /\ BaseRateSound(q, r)

CarriedRates == \A c \in Calls : calls[c] # Idle => CallSound(quotes, calls[c])

IInv == TypeOK /\ RatesAreQuoted /\ IdsAreRecorded /\ CarriedRates

\* v is the integer nearest to n / d, and the even one of two.
Nearest(v, n, d) ==
    LET e == 2 * (v * d - n)
    IN  /\ -d <= e /\ e <= d
        /\ e \in {-d, d} => v % 2 = 0

\* Every value of an overview, in the base currency of the moment it returns, is the exact
\* value to the nearest minor unit: at the manual rate while there is one, else at a quote
\* of the day.  A deleted manual rate is never used, nor one for another base currency.
ValuesAreRight ==
    \A day \in Days, x \in Holdings \ {settings.base} :
        LET base == settings.base
            v == Valued(quotes, base, day, x)
            manual == {k \in DOMAIN overrides : k = <<x, base, day>> /\ ~overrides[k].deleted}
        IN  IF manual # {}
            THEN \E k \in manual : Nearest(v, Balance[x] * overrides[k].rate.num,
                                           overrides[k].rate.den)
            ELSE v # None => \E p \in Quoted(x, day), b \in Quoted(base, day) :
                                Nearest(v, Balance[x] * p, b)

\* A refresh that no other overlaps leaves, for each currency it has asked for, a quote that
\* was not already superseded when the refresh began: an older answer that overtook a newer
\* one, or a 304 to the etag of an older row, is repaired by the next lone refresh.
LoneRefreshIsFresh ==
    [][\A c \in Calls : lone # None /\ lone.call = c /\ Receive(c) =>
         LET r == calls[c]
             asked == ({r.base, r.asking} \cup (Holdings \ r.todo)) \cap Foreign
         IN  \A x \in asked : lone.since[x] > 0 =>
               \E n \in lone.since[x]..MaxQuotes[x] :
                  quotes'[<<x, CNY, r.day>>].rate = normalizeBocRate(x, r.day, n)]_vars

\* An overview returns whatever the network does: it waits for each currency once.
OverviewEnds == \A c \in Calls : calls[c] # Idle ~> calls[c] = Idle

=============================================================================
