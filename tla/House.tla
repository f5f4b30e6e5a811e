--------------------------------- MODULE House ---------------------------------
(***************************************************************************)
(* Five services of a house that share no state: memberships, ballots,     *)
(* energy data, the local connector and the runs of annual statements.  A  *)
(* behaviour runs one of them; the others rest in their initial state.     *)
(* GrantsCovered and Restores are Membership's own, CentsConserved and      *)
(* SharesFair those of AnnualStatement.                                    *)
(***************************************************************************)
EXTENDS Membership, AnnualStatement

CONSTANTS
    Requests,                  \* requests of the ballots and of the energy data
    Voters, Options, BallotHorizon, Deadline, Reminder,
    Entities, None, Quarter, Hold, Start, EnergyHorizon,
    Pairers, Codes, Creds      \* requests of the connector

ASSUME HouseAssumption ==
    /\ Codes \in Nat /\ Creds \in Nat
    /\ BallotHorizon \in Nat \ {0} /\ Deadline \in 0 .. BallotHorizon /\ Reminder \in Nat
    /\ Quarter \in Nat \ {0} /\ Hold \in Nat
    /\ EnergyHorizon \in Nat /\ Start \in 0 .. EnergyHorizon

VARIABLES
    active,
    doc, clock, ballotRequest, attaching, worker, acked, issued, mailed, twice, late,
    profile, mapping, imports, intervals, chart, energyRequest, tick, buffer, now, seen, onboarding,
    connector, fresh, codes, drawn, granted, readings, home, connectorRequest, redeemed, left

V == INSTANCE Ballots WITH
    Horizon <- BallotHorizon, request <- ballotRequest, now <- clock, overtaken <- late

E == INSTANCE EnergyHome WITH Horizon <- EnergyHorizon, request <- energyRequest

C == INSTANCE HomeConnector WITH Requests <- Pairers, request <- connectorRequest

NoPeriod == [key |-> "none"]

votes == <<doc, clock, ballotRequest, attaching, worker, acked, issued, mailed, twice, late>>
energy == <<profile, mapping, imports, intervals, chart, energyRequest, tick, buffer,
            now, seen, onboarding>>
connectors == <<connector, fresh, codes, drawn, granted, readings, home, connectorRequest,
                redeemed, left>>
services == <<active, vars, votes, energy, connectors, statements>>

HouseInit ==
    /\ active \in {"members", "votes", "energy", "connectors", "statements"}
    /\ Init /\ V!Init /\ E!Init /\ C!Init
    /\ active = "votes" \/ attaching
    /\ active = "connectors" \/ home = "claimed"
    /\ IF active = "statements"
       THEN StatementInit
       ELSE period = NoPeriod /\ run = NoRun

HouseNext ==
    /\ UNCHANGED active
    /\ \/ active = "members" /\ Next
          /\ UNCHANGED <<votes, energy, connectors, statements>>
       \/ active = "votes" /\ V!Next
          /\ UNCHANGED <<vars, energy, connectors, statements>>
       \/ active = "energy" /\ E!Next
          /\ UNCHANGED <<vars, votes, connectors, statements>>
       \/ active = "connectors" /\ C!Next
          /\ UNCHANGED <<vars, votes, energy, statements>>
       \/ active = "statements" /\ StatementNext
          /\ UNCHANGED <<vars, votes, energy, connectors>>

HouseSpec == HouseInit /\ [][HouseNext]_services
-------------------------------------------------------------------------------
\* Ballots: the row holds the acknowledged votes and an issued protocol is
\* final, while no document is written over a newer one (castVote, setStatus).
CountsTrue == V!CountsTrue

\* Ballots: nobody is reminded twice unless the mark of the first reminder was
\* lost (sendDueBallotReminders).
RemindedOnce == V!RemindedOnce

\* Energy: nothing comes back after a deletion (energy_lifecycle_lock.go).
NothingRevived == E!NothingRevived

\* Energy: a quarter with a value was watched (energy_sampler.go).
QuarterObserved == E!QuarterObserved

\* Connector: a pairing code makes one credential (ExchangePairing).
CodeOnce == C!CodeOnce

\* Connector: the stored readings are the paired connector's (revoke, replace).
ReadingsOwned == C!ReadingsOwned
===============================================================================
