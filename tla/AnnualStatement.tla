----------------------------- MODULE AnnualStatement -----------------------------
(***************************************************************************)
(* The run of an annual statement: the receipts of a period become cents   *)
(* of the units, of the landlord for vacant days and of the parties that   *)
(* followed each other in a unit (annual_statement_run_calculation.go,     *)
(* _allocation.go, _heating.go, _vacancy.go, _vat.go, _party_change.go).   *)
(* There are two cost types, in the order of their keys: heating, which is *)
(* measured, and water, whose key the period chooses.  Int64 overflow, the *)
(* proposals for the next prepayments, the reserve and the replay of old   *)
(* calculation versions are left out.  Dates are the days of the period.   *)
(***************************************************************************)
EXTENDS Integers, Sequences, FiniteSets, Functions

CONSTANTS
    Units,      \* how many units the house has, sorted by id
    Million,    \* the parts a share is counted in (ppm)
    DaysIn,     \* per day of the period: how many days its month has
    Common,     \* a common multiple of the lengths of the months
    Periods     \* the period's data a run may load

VARIABLES
    period,     \* what load reads in its transaction
    run         \* the stored run, or NoRun

statements == <<period, run>>

Unit == 1 .. Units
Heating == 1
Water == 2
Costs == {Heating, Water}
Changing == 1   \* the unit whose parties have dates
Last == Len(DaysIn)

\* What load reads of a period: amounts are not negative, ids are known, and
\* parties are sorted by id.
RunInputs ==
    [energy : Nat, other : Nat, water : Nat, key : {"nutzwert", "vereinbart", "flaeche"},
     basis : [Unit -> Nat], used : [Unit -> Nat], heatable : [Unit -> Nat],
     prepaid : [Unit -> Nat], heatPaid : [Unit -> Nat], percent : Int, heizkg : BOOLEAN,
     regime : STRING, vacant : [unit : Nat, from : Nat, to : Nat], vat : BOOLEAN, rate : Nat,
     parties : Seq([owner : BOOLEAN, renter : BOOLEAN, from : Nat, to : Nat]),
     interim : [day : Nat, value : Nat], due : Nat]

ASSUME StatementAssumption ==
    /\ Units \in Nat \ {0} /\ Million \in Nat \ {0}
    /\ DaysIn \in Seq(Nat \ {0}) /\ DaysIn # <<>>
    /\ Common \in Nat \ {0} /\ \A d \in 1 .. Last : Common % DaysIn[d] = 0
    /\ Periods \subseteq RunInputs

NoRun == [input |-> 0]
Blocked == [blocked |-> TRUE]
-------------------------------------------------------------------------------
(* Rounding. *)

Total(f) == FoldFunction(LAMBDA x, y : x + y, 0, f)

\* Whose remainder is larger than that of i, or the same at an earlier index.
Ahead(rest, i) == {j \in DOMAIN rest : rest[j] > rest[i] \/ (rest[j] = rest[i] /\ j < i)}

\* Largest remainder: every weight gets its floor; what is left goes in single
\* cents to the largest remainders.
Split(amount, weights, whole) ==
    LET floor == [i \in DOMAIN weights |-> (amount * weights[i]) \div whole]
        rest == [i \in DOMAIN weights |-> (amount * weights[i]) % whole]
        left == amount - Total(floor)
    IN  [i \in DOMAIN weights |->
            floor[i] + (IF Cardinality(Ahead(rest, i)) < left THEN 1 ELSE 0)]

Distribute(amount, weights) ==
    IF amount = 0 \/ Total(weights) = 0
    THEN [i \in DOMAIN weights |-> 0]
    ELSE Split(amount, weights, Total(weights))

SharePPM(basis) == Distribute(Million, basis)

\* Mutant: the cents that are left go to the first units.
RunCentsInOrder(shares, amount) ==
    LET floor == [u \in DOMAIN shares |-> (amount * shares[u]) \div Million]
    IN  [u \in DOMAIN shares |-> floor[u] + (IF u <= amount - Total(floor) THEN 1 ELSE 0)]

RunCents(shares, amount) == Split(amount, shares, Million)

\* Half up, once for a whole pool or a whole rate.
PoolShare(energy, percent) == (energy * percent + 50) \div 100
VATFromGross(gross, rate) ==
    LET num == gross * rate
        div == 100 + rate
    IN  (num \div div) + (IF 2 * (num % div) >= div THEN 1 ELSE 0)
-------------------------------------------------------------------------------
(* What blocks a run. *)

Amount(p, c) == IF c = Heating THEN p.energy + p.other ELSE p.water

KeyReady(p) ==
    CASE p.key = "nutzwert" -> (\A u \in Unit : p.basis[u] > 0) /\ Total(p.basis) = Million
      [] p.key = "vereinbart" -> Total(p.basis) = Million
      [] p.key = "flaeche" -> Total(p.basis) > 0

HeatingReady(p) ==
    /\ Total(p.used) > 0
    /\ p.heizkg => /\ \A u \in Unit : p.heatPaid[u] <= p.prepaid[u]
                   /\ p.percent \in 55 .. 85
                   /\ Total(p.heatable) > 0

Ready(p) == (\A c \in Costs : Amount(p, c) > 0) /\ KeyReady(p) /\ HeatingReady(p)
-------------------------------------------------------------------------------
(* The units' cents. *)

WaterShares(p) == IF p.key = "vereinbart" THEN p.basis ELSE SharePPM(p.basis)

Consumed(p) == PoolShare(p.energy, p.percent)

HeatingCents(p) ==
    LET measured == RunCents(SharePPM(p.used), Consumed(p))
        area == RunCents(SharePPM(p.heatable), Amount(p, Heating) - Consumed(p))
    IN  [u \in Unit |-> measured[u] + area[u]]

UnitCents(p, c) ==
    IF c = Water THEN RunCents(WaterShares(p), p.water)
    ELSE IF p.heizkg THEN HeatingCents(p)
    ELSE RunCents(SharePPM(p.used), Amount(p, Heating))

VacantDays(p) == Cardinality((p.vacant.from .. p.vacant.to) \cap (1 .. Last))

\* The landlord's slice of what the unit already got, for its vacant days.
Owned(p, u, cents) ==
    IF p.regime \in {"mrg_voll", "mrg_teil"} /\ p.vacant.unit = u
    THEN (cents * VacantDays(p)) \div Last
    ELSE 0

\* The bills of a run, cents per cost: the units' first, then the landlord's.
Bills == 1 .. 2 * Units
Billed(p, heating, water) ==
    LET owned == [u \in Unit |-> <<Owned(p, u, heating[u]), Owned(p, u, water[u])>>]
    IN  [u \in Unit |-> <<heating[u] - owned[u][Heating], water[u] - owned[u][Water]>>] \o owned
Gross(p) == Billed(p, UnitCents(p, Heating), UnitCents(p, Water))
-------------------------------------------------------------------------------
(* VAT: rounded once for the house and a rate, then handed down. *)

RateOf(p, c) == IF c = Heating THEN 20 ELSE p.rate

OfRate(p, rate, bill) ==
    <<IF RateOf(p, Heating) = rate THEN bill[Heating] ELSE 0,
      IF RateOf(p, Water) = rate THEN bill[Water] ELSE 0>>

BillOfRate(p, rate, bill) == OfRate(p, rate, bill)[Heating] + OfRate(p, rate, bill)[Water]

HouseVAT(p, rate, gross) ==
    VATFromGross(Total([b \in Bills |-> BillOfRate(p, rate, gross[b])]), rate)

\* Mutant: every bill rounds its own VAT.
BillVATAlone(p, rate, gross) ==
    [b \in Bills |-> VATFromGross(BillOfRate(p, rate, gross[b]), rate)]

BillVAT(p, rate, gross) ==
    Distribute(HouseVAT(p, rate, gross), [b \in Bills |-> BillOfRate(p, rate, gross[b])])

LineVAT(p, gross) ==
    LET bill == [rate \in {RateOf(p, c) : c \in Costs} |-> BillVAT(p, rate, gross)]
        Line(b, c) == Distribute(bill[RateOf(p, c)][b], OfRate(p, RateOf(p, c), gross[b]))[c]
    IN  [b \in Bills |-> <<Line(b, Heating), Line(b, Water)>>]

NoVAT == [b \in Bills |-> [c \in Costs |-> 0]]

\* calculateAnnualStatementRun, and the VAT when the period shows it.
UnitRun(p) ==
    IF ~Ready(p) THEN Blocked
    ELSE [gross |-> Gross(p),
          vat |-> IF p.vat THEN LineVAT(p, Gross(p)) ELSE NoVAT,
          parties |-> <<>>]
-------------------------------------------------------------------------------
(* The parties of the unit that changed hands.                              *)

\* Under WEG only owners are parties of a run.
Parties(p) == IF p.regime = "weg" THEN {i \in DOMAIN p.parties : p.parties[i].owner}
                                  ELSE DOMAIN p.parties

HasDated(p) == \E i \in Parties(p) : p.parties[i].from # 0 \/ p.parties[i].to # 0

Active(party, day) ==
    (party.from = 0 \/ party.from <= day) /\ (party.to = 0 \/ day <= party.to)

\* The renter of the day, else its owner; 0 when that is not one party.
PartyAt(p, day) ==
    LET active == {i \in Parties(p) : Active(p.parties[i], day)}
        renters == {i \in active : p.regime # "weg" /\ p.parties[i].renter}
        asked == IF renters # {} THEN renters ELSE {i \in active : p.parties[i].owner}
    IN  IF Cardinality(asked) = 1 THEN CHOOSE i \in asked : TRUE ELSE 0

\* Per day of the period, and on the day the statement falls due.
PartyOf(p) == [d \in 1 .. Last \cup {p.due} |-> PartyAt(p, d)]

\* The days on which a segment of one party begins, and the day after the last.
Bounds(party) ==
    {1, Last + 1} \cup {d \in 2 .. Last : party[d] # party[d - 1]}

Covered(party) == \A d \in 1 .. Last : party[d] # 0

\* A day weighs one over the days of its month, here over their common multiple.
MonthlyWeights(p, party) ==
    [i \in DOMAIN p.parties |->
        Total([d \in {e \in 1 .. Last : party[e] = i} |-> Common \div DaysIn[d]])]

\* An interim reading counts on the day a party's dates begin or have ended.
Interim(p) ==
    {d \in {p.interim.day} \cap (2 .. Last) :
        \E i \in Parties(p) :
            \/ d = p.parties[i].from
            \/ (p.parties[i].to # 0 /\ d = p.parties[i].to + 1)}

\* The annual readings at both ends and the interim reading, when there is one.
Meter(p) ==
    [d \in {1, Last + 1} \cup Interim(p) |->
        IF d = 1 THEN 0 ELSE IF d = Last + 1 THEN p.used[Changing] ELSE p.interim.value]

MeterComplete(party, meter) == Bounds(party) \subseteq DOMAIN meter

MeterFalls(party, meter) == \E d, e \in Bounds(party) : d < e /\ meter[e] < meter[d]

\* A party's segment ends where the next one begins.
EndOf(party, d) ==
    CHOOSE e \in Bounds(party) : e > d /\ \A b \in Bounds(party) : b > d => e <= b

\* What the meter went up by over the segments of a party.
MeterWeights(p, party, meter) ==
    [i \in DOMAIN p.parties |->
        Total([d \in {e \in Bounds(party) \ {Last + 1} : party[e] = i} |->
                  meter[EndOf(party, d)] - meter[d]])]

ReadingRefused(party, meter) ==
    IF MeterComplete(party, meter) THEN MeterFalls(party, meter)
                                   ELSE DOMAIN meter # {1, Last + 1}

Measured(p, party, meter) ==
    MeterComplete(party, meter) /\ Total(MeterWeights(p, party, meter)) > 0

\* The unit's measured pool by the meter, the rest by months.
ByMeter(p, party, meter, pool, cents) ==
    [i \in DOMAIN p.parties |->
        Distribute(pool, MeterWeights(p, party, meter))[i]
        + Distribute(cents - pool, MonthlyWeights(p, party))[i]]

PartyHeating(p, party, cents) ==
    IF Measured(p, party, Meter(p))
    THEN ByMeter(p, party, Meter(p), RunCents(SharePPM(p.used), Consumed(p))[Changing], cents)
    ELSE Distribute(cents, MonthlyWeights(p, party))

\* All of it to the party of the day the statement falls due.
Whole(p, party, amount) ==
    [i \in DOMAIN p.parties |-> IF i = party[p.due] THEN amount ELSE 0]

PartyCents(p, party, bill) ==
    [c \in Costs |-> IF c = Heating /\ p.heizkg THEN PartyHeating(p, party, bill[c])
                                               ELSE Whole(p, party, bill[c])]

\* The heating prepayments by months, the rest to one.
PartyPrepaid(p, party) ==
    LET heatPaid == IF p.heizkg THEN p.heatPaid[Changing] ELSE 0
    IN  [i \in DOMAIN p.parties |->
            Distribute(heatPaid, MonthlyWeights(p, party))[i]
            + Whole(p, party, p.prepaid[Changing] - heatPaid)[i]]

\* A line's VAT follows its cents.
PartyLines(p, cents, vat, prepaid) ==
    [i \in DOMAIN p.parties |->
        [cents |-> [c \in Costs |-> cents[c][i]],
         vat |-> [c \in Costs |-> Distribute(vat[c], cents[c])[i]],
         prepaid |-> prepaid[i]]]

PartyShares(p, party, result) ==
    PartyLines(p, PartyCents(p, party, result.gross[Changing]), result.vat[Changing],
               PartyPrepaid(p, party))

\* Parties with dates take the place of the vacancy of their unit.
WithoutVacancy(p) == IF p.vacant.unit = Changing THEN [p EXCEPT !.vacant.unit = 0] ELSE p

Unclear(p, party) ==
    \/ party[p.due] = 0
    \/ p.heizkg /\ (~Covered(party) \/ ReadingRefused(party, Meter(p)))

Divided(p, party, result) ==
    IF result = Blocked \/ Unclear(p, party) THEN Blocked
    ELSE [result EXCEPT !.parties = PartyShares(p, party, result)]
-------------------------------------------------------------------------------
(* Runs.                                                                   *)

Calculate(p) ==
    IF HasDated(p) THEN Divided(p, PartyOf(p), UnitRun(WithoutVacancy(p))) ELSE UnitRun(p)

StatementInit == period \in Periods /\ run = NoRun

\* A blocked run is not stored.
Create ==
    /\ run = NoRun
    /\ LET result == Calculate(period)
       IN  /\ result # Blocked
           /\ run' = [input |-> period, result |-> result]
    /\ UNCHANGED period

StatementNext == Create

StatementSpec == StatementInit /\ [][StatementNext]_statements
-------------------------------------------------------------------------------
(* Properties.                                                              *)

\* The statement adds up to the cent: the bills of units and landlord are the
\* receipts, their VAT is the house's VAT of each rate, and the parties of a
\* unit that changed hands divide its cents, VAT and prepayment without a rest;
\* no line carries more VAT than cents (applyAnnualStatementVAT, partyCents).
CentsConserved ==
    run # NoRun =>
        LET p == run.input
            r == run.result
            lines == Bills \X Costs
        IN  /\ \A c \in Costs : Total([b \in Bills |-> r.gross[b][c]]) = Amount(p, c)
            /\ \A l \in lines : r.gross[l[1]][l[2]] \in Nat /\ r.vat[l[1]][l[2]] \in 0 .. r.gross[l[1]][l[2]]
            /\ p.vat => \A rate \in {RateOf(p, c) : c \in Costs} :
                   Total([b \in Bills |-> BillOfRate(p, rate, r.vat[b])]) = HouseVAT(p, rate, r.gross)
            /\ r.parties # <<>> =>
                   /\ \A c \in Costs :
                         /\ Total([i \in DOMAIN r.parties |-> r.parties[i].cents[c]]) = r.gross[Changing][c]
                         /\ Total([i \in DOMAIN r.parties |-> r.parties[i].vat[c]]) = r.vat[Changing][c]
                         /\ \A i \in DOMAIN r.parties :
                                r.parties[i].vat[c] \in 0 .. r.parties[i].cents[c]
                   /\ Total([i \in DOMAIN r.parties |-> r.parties[i].prepaid]) = p.prepaid[Changing]

\* What a unit got before its vacant days went to the landlord.
Got(u, c) == run.result.gross[u][c] + run.result.gross[Units + u][c]

\* Within a cent, and the millionth part of the amount, of the exact share.
Near(cents, amount, weights) ==
    LET all == Total(weights)
        off(i) == cents[i] * all - amount * weights[i]
    IN  \A i \in DOMAIN weights :
            (IF off(i) < 0 THEN -off(i) ELSE off(i)) * Million < all * (Million + amount)

\* Who has more of every pool by over a millionth of it pays no less; who just
\* has more, at most a cent less for each pool.
InOrder(cents, pools) ==
    \A u, v \in Unit :
        LET more(w) == pools[w][u] - pools[w][v]
        IN  /\ (\A w \in DOMAIN pools : more(w) * Million > Total(pools[w])) => cents[u] >= cents[v]
            /\ (\A w \in DOMAIN pools : more(w) > 0) => cents[u] >= cents[v] - Len(pools)

NothingForNone(cents, pools) ==
    \A u \in Unit : (\A w \in DOMAIN pools : pools[w][u] = 0) => cents[u] = 0

\* Rounding twice, to a share and to cents, is fair: a unit without basis pays
\* nothing, one with more by over a millionth pays no less, one that just has
\* more at most a cent less per pool, and nobody is further from the exact share
\* than a cent and a millionth (distributePPM, annualStatementRunCents).
SharesFair ==
    run # NoRun =>
        LET p == run.input
            got(c) == [u \in Unit |-> Got(u, c)]
            pools(c) == IF c = Water THEN <<p.basis>>
                        ELSE IF p.heizkg THEN <<p.used, p.heatable>> ELSE <<p.used>>
        IN  \A c \in Costs :
                /\ InOrder(got(c), pools(c))
                /\ NothingForNone(got(c), pools(c))
                /\ Len(pools(c)) = 1 => Near(got(c), Amount(p, c), pools(c)[1])
===============================================================================
