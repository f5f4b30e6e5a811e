-------------------------------- MODULE MCHouse --------------------------------
(***************************************************************************)
(* The services of a house on a small instance: two requests, a voter, two *)
(* options, organisations and sensors, three pairing requests, and periods *)
(* of three units and five days.                                           *)
(***************************************************************************)
EXTENDS House, TLC

NoDates == [owner |-> FALSE, renter |-> FALSE, from |-> 0, to |-> 0]
Owner(from, to) == [NoDates EXCEPT !.owner = TRUE, !.from = from, !.to = to]
Renter(from, to) == [NoDates EXCEPT !.renter = TRUE, !.from = from, !.to = to]
NoReading == [day |-> 0, value |-> 0]
Reading(day) == [day |-> day, value |-> 1]
Regimes == {<<"weg", [unit |-> 0, from |-> 1, to |-> 1]>>,
            <<"mrg_voll", [unit |-> 1, from |-> 1, to |-> 2]>>,
            <<"mrg_voll", [unit |-> 2, from |-> 3, to |-> 9]>>,
            <<"ausnahme", [unit |-> 2, from |-> 3, to |-> 9]>>}
Bases == {<<<<7, 4, 13>>, "flaeche", <<0, 2, 5>>>>, <<<<3, 0, 23>>, "flaeche", <<3, 3, 1>>>>,
          <<<<3, 0, 23>>, "nutzwert", <<3, 3, 4>>>>, <<<<7, 4, 13>>, "nutzwert", <<1, 2, 4>>>>,
          <<<<7, 4, 13>>, "vereinbart", <<0, 5, 5>>>>, <<<<3, 0, 1>>, "flaeche", <<5, 6, 0>>>>}
Changes == {<<<<Owner(0, 0)>>, NoReading, 6>>,
            <<<<Owner(0, 2), Owner(3, 0)>>, Reading(3), 6>>,
            <<<<Owner(0, 0), Renter(0, 2), Renter(3, 0)>>, NoReading, 2>>,
            <<<<Owner(0, 0), Renter(0, 2), Renter(3, 0)>>, Reading(3), 6>>,
            <<<<Owner(0, 0), Renter(0, 2), Renter(5, 0)>>, NoReading, 3>>,
            <<<<Owner(0, 0), Renter(0, 3), Renter(3, 0)>>, NoReading, 6>>}
PeriodData(b, g, q, used, heizkg, tax) ==
    [energy |-> b[1][1], other |-> b[1][2], water |-> b[1][3], key |-> b[2], basis |-> b[3],
     used |-> used, heatable |-> <<2, 1, 0>>, prepaid |-> <<5, 2, 3>>, heatPaid |-> <<4, 2, 0>>,
     percent |-> 55, heizkg |-> heizkg, regime |-> g[1], vacant |-> g[2],
     vat |-> tax # 0, rate |-> IF tax = 0 THEN 10 ELSE tax,
     parties |-> q[1], interim |-> q[2], due |-> q[3]]

SmallDays == <<2, 2, 3, 3, 3>>
SmallPeriods == {PeriodData(b, g, q, used, heizkg, tax) :
                    b \in Bases, g \in Regimes, q \in Changes, used \in {<<3, 1, 2>>, <<1, 4, 0>>},
                    heizkg \in BOOLEAN, tax \in {0, 10, 20}}

Symmetry == Permutations(Requests) \cup Permutations(Options)
===============================================================================
