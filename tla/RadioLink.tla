------------------------------- MODULE RadioLink -------------------------------
(***************************************************************************)
(* The node table at the end of a radio link.  Every sender numbers the    *)
(* packets it sends, whatever their type, with one counter of which only   *)
(* SeqModulus values go on the air (BeaconLogic::next_seq16); the radio    *)
(* loses, repeats and reorders packets; the receiver hands every packet it *)
(* decodes to its table (M1Runtime::handle_rx).                            *)
(*                                                                         *)
(* The position and the status of a packet are stood for by the packet's   *)
(* true index, so that the table shows which packet it was told by.        *)
(***************************************************************************)
EXTENDS NodeTable, FiniteSetsExt, Functions

CONSTANTS
  FirstIdx,   \* node -> what its counter may start from
  LastIdx,    \* bound: node -> the index of the last packet it may send
  MaxInAir    \* bound: packets in flight at once

ASSUME LinkAssumption ==
  /\ FirstIdx \in [Senders -> SUBSET Nat]
  /\ LastIdx \in [Senders -> Nat]
  /\ MaxInAir \in Nat \ {0}
  /\ \A n \in Senders : 1 .. LastIdx[n] \subseteq Positions \cap Statuses
  /\ Self \notin Senders

VARIABLES
  sent,       \* node -> true index of the last packet it sent
  air,        \* the packets in flight
  newest,     \* history: node -> greatest index heard of it since it entered the
              \* table, 0 when it is not in the table
  heard       \* history: node -> indices heard of it since it entered the table, those
              \* less than a turn of the numbers behind the newest

history == <<newest, heard>>
linkVars == <<vars, sent, air, history>>

Packet == [node : Senders, idx : Nat, kind : {"alive", "pos", "status"}]

LinkTypeOK ==
  /\ TypeOK
  /\ sent \in [Senders -> Nat]
  /\ newest \in [Senders -> Nat]
  /\ heard \in [Senders -> SUBSET Nat]
  /\ air \subseteq Packet
  /\ \A p \in air : p.idx <= sent[p.node]

Wire(idx) == idx % SeqModulus

Half == SeqModulus \div 2

\* The assumption behind 16-bit numbering: no packet stays in flight, and no run of
\* packets is lost, while its sender goes through half of the numbers.
WithinWindow(n, idx) ==
  /\ \A p \in air : p.node = n => idx - p.idx < Half
  /\ Known(n) => idx - newest[n] < Half

-------------------------------------------------------------------------------

LinkInit ==
  /\ Init
  /\ sent \in {f \in [Senders -> UNION Range(FirstIdx)] :
                \A n \in Senders : f[n] \in FirstIdx[n]}
  /\ air = {}
  /\ newest = [n \in Senders |-> 0]
  /\ heard = [n \in Senders |-> {}]

Send(n) ==
  LET idx == sent[n] + 1
  IN  /\ idx <= LastIdx[n]
      /\ Cardinality(air) < MaxInAir
      /\ WithinWindow(n, idx)
      /\ sent' = [sent EXCEPT ![n] = idx]
      /\ \E kind \in {"alive", "pos", "status"} :
           air' = air \cup {[node |-> n, idx |-> idx, kind |-> kind]}
      /\ UNCHANGED <<vars, history>>

Lose(p) ==
  /\ air' = air \ {p}
  /\ UNCHANGED <<vars, sent, history>>

\* on_rx for packet p; it is rejected when its sender is new and no slot can be had.
Apply(p) ==
  \/ p.kind = "alive" /\ UpsertRemote(p.node, NoPos, Wire(p.idx))
  \/ p.kind = "pos" /\ ApplyPosFull(p.node, p.idx, Wire(p.idx))
  \/ p.kind = "status" /\ ApplyStatus(p.node, p.idx, Wire(p.idx))
  \/ ~Known(p.node) /\ ~HasRoom /\ UNCHANGED vars

\* The packet may be received again: it stays in the air until it is lost.
Receive(p) ==
  /\ Apply(p)
  /\ newest' = [n \in Senders |->
                  IF ~Known(n)' THEN 0
                  ELSE IF n = p.node THEN Max({newest[n], p.idx})
                  ELSE newest[n]]
  /\ heard' = [n \in Senders |->
                 IF ~Known(n)' THEN {}
                 ELSE IF n = p.node
                      THEN {i \in heard[n] \cup {p.idx} : newest'[n] - i < SeqModulus}
                 ELSE heard[n]]
  /\ UNCHANGED <<sent, air>>

LinkTick == Tick /\ UNCHANGED <<sent, air, history>>

LinkNext ==
  \/ \E n \in Senders : Send(n)
  \/ \E p \in air : Lose(p) \/ Receive(p)
  \/ LinkTick

LinkSpec == LinkInit /\ [][LinkNext]_linkVars

-------------------------------------------------------------------------------
(* Properties.                                                             *)

Entry(n) == entries[FindEntryIndex(n)]

\* The table never goes back to an older sample: while a node stays, the packets its
\* position and its status come from only get newer, through loss, repetition,
\* reordering and the wrap of the 16-bit counter ("no time travel").
SamplesNeverRegress ==
  [][\A n \in Senders : (Known(n) /\ Known(n)') =>
       LET e == Entry(n)
           f == Entry(n)'
       IN  /\ e.pos # NoPos => f.pos >= e.pos
           /\ e.status # NoStatus => f.status >= e.status
    ]_linkVars

\* Of the number of a packet only 16 bits are kept, as last_seq.  They are those of a packet
\* that was heard, less than a turn of the numbers ago, and the position and the status come
\* from no later packet.  Or the entry is blank, as no packet heard has been newer than the 0
\* that a fresh entry starts with.
NumberIsOfHeard ==
  \A n \in Senders : Known(n) =>
    LET e == Entry(n)
    IN  \/ /\ <<e.last_seq, e.pos, e.status>> = <<0, NoPos, NoStatus>>
           /\ \A idx \in heard[n] : ~Seq16Newer(Wire(idx), 0)
        \/ \E idx \in heard[n] :
             /\ e.last_seq = Wire(idx)
             /\ e.pos \in {NoPos} \cup 1 .. idx
             /\ e.status \in {NoStatus} \cup 1 .. idx

\* The receiver's policy (rx_semantics_v0 section 1): a packet is a duplicate only if
\* its number was seen for that node, and out of order only if it is older than the
\* last accepted one.  The first packet heard of a node is neither, so that the newest
\* packet heard is always the one last_seq shows.
FirstHeardAccepted ==
  \A n \in Senders : Known(n) => Entry(n).last_seq = Wire(newest[n])

================================================================================
