---------------------------- MODULE HistoryPage ----------------------------
(***************************************************************************)
(* The history page (src/ui/pages/history_page.cpp): the ledger of the     *)
(* identity on stage, merged from one thread per chain.  The threads of a  *)
(* flight share its rows, under a mutex, a dirty flag and a count of those *)
(* still in the air; the frame reads the flag and the count at different   *)
(* moments.  The threads of a flight the page has let go of write into it  *)
(* alone and are left out.                                                 *)
(*                                                                         *)
(* A row is the chain it came from.                                        *)
(***************************************************************************)
EXTENDS VaultFaces

CONSTANTS
  Chains,   \* chains with a ledger
  MaxMerges \* bound: ledgers fetched

ASSUME HistoryAssumption == Chains # {} /\ IsFiniteSet(Chains) /\ MaxMerges \in Nat

VARIABLES
  ledger, \* m_followed, m_addrs, m_rows and whose they are
  flight, \* m_job, or NoFlight
  thread, \* of each chain: where the thread of the flight is
  frame,  \* where the frame is in draw
  merges  \* flights so far

history == <<ledger, flight, thread, frame, merges>>

NoFlight == [of |-> NoOne]
NoPage == [of |-> NoOne]
AtTop == [at |-> "top", current |-> FALSE, done |-> FALSE]
Grounded == [c \in Chains |-> "over"]

HistoryInit ==
  /\ ledger = [followed |-> NoOne, addrs |-> NoOne, rows |-> NoPage]
  /\ flight = NoFlight /\ thread = Grounded
  /\ frame = AtTop /\ merges = 0

(***************************************************************************)
(* The threads.                                                            *)
(***************************************************************************)

\* The rows of a chain are inserted, or its failure counted, under the mutex.
Inserts(c) ==
  /\ flight # NoFlight /\ thread[c] = "out"
  /\ \/ /\ flight' = [flight EXCEPT !.rows = @ \cup {c}]
        /\ thread' = [thread EXCEPT ![c] = "inserted"]
     \/ /\ flight' = [flight EXCEPT !.failed = @ + 1]
        /\ thread' = [thread EXCEPT ![c] = "done"]
  /\ UNCHANGED <<ledger, frame, merges>>

SetsDirty(c) ==
  /\ flight # NoFlight /\ thread[c] = "inserted"
  /\ flight' = [flight EXCEPT !.dirty = TRUE]
  /\ thread' = [thread EXCEPT ![c] = "done"]
  /\ UNCHANGED <<ledger, frame, merges>>

CountsDown(c) ==
  /\ flight # NoFlight /\ thread[c] = "done"
  /\ flight' = [flight EXCEPT !.pending = @ - 1]
  /\ thread' = [thread EXCEPT ![c] = "over"]
  /\ UNCHANGED <<ledger, frame, merges>>

(***************************************************************************)
(* The frame.                                                              *)
(***************************************************************************)

TakesOff(of) ==
  /\ merges' = merges + 1
  /\ flight' = [of |-> of, after |-> moves, rows |-> {}, failed |-> 0,
                dirty |-> FALSE, pending |-> Cardinality(Chains)]
  /\ thread' = [c \in Chains |-> "out"]

LandsNone == flight' = NoFlight /\ thread' = Grounded /\ UNCHANGED merges

\* This frame would start a flight: the one chased, or the one followed.
StartsFlight ==
  \/ /\ flight # NoFlight /\ flight.pending = 0
     /\ ledger.followed \notin {flight.of, NoOne}
  \/ onStage \notin {ledger.followed, NoOne} /\ ~frozen

WithinMerges == StartsFlight => merges < MaxMerges

\* Whose ledger it is and how many are still out is read first.
FrameBegins ==
  /\ frame = AtTop /\ WithinMerges
  /\ frame' = IF flight = NoFlight THEN [AtTop EXCEPT !.at = "follow"]
              ELSE [at |-> "flag", current |-> flight.of = ledger.followed,
                    done |-> flight.pending = 0]
  /\ UNCHANGED <<ledger, flight, thread, merges>>

Goes(at) == frame' = [frame EXCEPT !.at = at]

\* The flag is taken down before the rows are copied.
FrameLowersFlag ==
  /\ frame.at = "flag"
  /\ flight' = IF frame.current THEN [flight EXCEPT !.dirty = FALSE] ELSE flight
  /\ Goes(IF frame.current /\ (flight.dirty \/ frame.done) THEN "copy"
          ELSE "finish")
  /\ UNCHANGED <<ledger, thread, merges>>

FrameCopies ==
  /\ frame.at = "copy"
  /\ ledger' = [ledger EXCEPT !.rows = [of |-> flight.of, after |-> flight.after,
                                        from |-> flight.rows]]
  /\ Goes("finish")
  /\ UNCHANGED <<flight, thread, merges>>

\* Mutant: the count is read again after the rows were copied.
DoneByNow == flight.pending = 0

Done == frame.done

\* A flight that is over is let go of; were it another identity's, the one
\* followed would be chased.
FrameFinishes ==
  /\ frame.at = "finish"
  /\ IF ~Done THEN UNCHANGED <<flight, thread, merges>>
     ELSE IF ~frame.current /\ ledger.followed # NoOne
          THEN TakesOff(ledger.addrs) ELSE LandsNone
  /\ Goes("follow")
  /\ UNCHANGED ledger

\* Mutant: the rows of the identity that left stay until the next ones land.
KeepsTheRows(of) ==
  ledger' = [ledger EXCEPT !.followed = of, !.addrs = of]

Turns(of) ==
  ledger' = [ledger EXCEPT !.followed = of, !.addrs = of, !.rows = NoPage]

\* The identity on stage is followed: the flight in the air is orphaned.
FrameFollows ==
  /\ frame.at = "follow"
  /\ frame' = AtTop
  /\ IF onStage = ledger.followed \/ frozen
     THEN UNCHANGED <<ledger, flight, thread, merges>>
     ELSE /\ Turns(onStage)
          /\ IF onStage = NoOne THEN LandsNone ELSE TakesOff(onStage)

\* The link is there while no flight is held.
LedgerLink ==
  /\ frame = AtTop /\ ~frozen /\ merges < MaxMerges
  /\ flight = NoFlight /\ onStage # NoOne /\ ledger.followed = onStage
  /\ TakesOff(ledger.addrs)
  /\ UNCHANGED <<ledger, frame>>

HistoryGoesStale ==
  /\ ledger' = [ledger EXCEPT !.followed = NoOne]
  /\ UNCHANGED <<flight, thread, frame, merges>>

(***************************************************************************)
(* Properties.                                                             *)
(***************************************************************************)

\* As on the assets page: stale, then locked, and no frame followed in between.
LedgerLeftBehind ==
  onStage = NoOne /\ ledger.followed = NoOne /\ ledger.addrs # NoOne

\* A frame ends with no rows, or with rows of the identity on stage fetched
\* after every payment that has settled, whatever flight was in the air.  Over a
\* locked stage it ends with none, but where the ledger was left behind.
LedgerIsCurrent ==
  [][ FrameFollows /\ ~frozen =>
        \/ ledger'.rows = NoPage
        \/ /\ onStage # NoOne
           /\ ledger'.rows.of = onStage /\ ledger'.rows.after = moves
        \/ LedgerLeftBehind
    ]_<<faces, history>>

\* When a flight is over, the rows of every chain that answered are on the
\* page ("the last chain's rows can never slip between a dirty flag and the
\* finish line").
LedgerIsWhole ==
  [][ frame.at = "finish" /\ frame.current /\ flight' = NoFlight =>
        ledger.rows # NoPage /\ ledger.rows.from = flight.rows
    ]_<<faces, history>>
=============================================================================
