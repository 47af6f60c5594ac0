----------------------------- MODULE MCFxRates -----------------------------
(***************************************************************************)
(* Two overlapping overviews of accounts in CNY, AED and USD, for TLC.     *)
(* The AED account is a liability, and its value in CNY lies half way      *)
(* between two minor units.  What the user interface says of missing       *)
(* rates is stated here, and checked against the same specification.       *)
(***************************************************************************)
EXTENDS FxRates, TLC

MCPrice == [z \in {"AED", "USD"} \X Days \X (1..2) |->
              (IF z[1] = "AED" THEN 190 ELSE 710) + 7 * (z[3] - 1) + 40 * (z[2] - 1)]
MCQuotes == [x \in {"AED", "USD"} |-> IF x = "AED" THEN 1 ELSE 2]
MCBalance == [x \in Holdings |->
                CASE x = "AED" -> -15 [] x = "USD" -> 3 [] x = "CNY" -> 1000]
MCPairs == {<<"USD", "AED">>}
MCRates == {[num |-> 7, den |-> 2]}

\* locales/en.json:63, shown when a currency has no rate: "No FX quote is available".  When
\* an overview ends whose base currency did not change meanwhile, a currency without a
\* value has no stored quote in CNY for the day, or the base currency has none.
MissingOnlyWithoutQuote ==
    [][\A c \in Calls :
         calls[c] # Idle /\ calls'[c] = Idle /\ calls[c].base = settings.base =>
            LET day == calls[c].day
                available(x) == x = CNY \/ <<x, CNY, day>> \in DOMAIN quotes'
            IN  \A x \in Holdings :
                   Valued(quotes', settings.base, day, x) = None =>
                      ~(available(x) /\ available(settings.base))]_vars

=============================================================================
