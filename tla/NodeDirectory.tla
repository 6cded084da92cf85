---------------------------- MODULE NodeDirectory ----------------------------
(***************************************************************************)
(* What the node table promises, without slots, indices or flags: a        *)
(* bounded directory of the nodes a device knows and of the latest it      *)
(* learned of each.  NodeTable implements it.                              *)
(***************************************************************************)
EXTENDS Integers, FiniteSets

CONSTANTS
  Nodes, Self, MaxNodes,
  SeqModulus, TimeMod,
  StaleTimes,       \* the silences, in ticks, after which a node is stale
  Positions, NoPos, Statuses, NoStatus, Names, NoName

VARIABLES
  directory,        \* known node -> what is known of it
  now

vars == <<directory, now>>

Seq16 == 0 .. SeqModulus - 1

\* What the directory holds of a node.
Fact(name, pos, status, seq, seen) ==
  [node_name |-> name, pos |-> pos, status |-> status, last_seq |-> seq, last_seen |-> seen]

KnownNodes == DOMAIN directory

Newer(incoming, last) == (incoming - last) % SeqModulus \in 1 .. SeqModulus \div 2 - 1

Silence(n) ==
  IF now >= directory[n].last_seen THEN now - directory[n].last_seen ELSE 0

\* The nodes that may make room for a new one: none before the directory is full,
\* then the stale ones of which no other node has been silent longer.
Replaceable ==
  IF Cardinality(KnownNodes) < MaxNodes THEN {}
  ELSE {n \in KnownNodes \ {Self} :
          /\ Silence(n) \in StaleTimes
          /\ \A m \in KnownNodes \ {Self} : Silence(m) <= Silence(n)}

Init ==
  /\ now = 0
  /\ directory = [n \in {Self} |-> Fact(NoName, NoPos, NoStatus, 0, now)]

\* A frame that carries nothing newer only shows that its sender is alive.
Refresh(n) ==
  /\ n \in KnownNodes
  /\ LET f == directory[n]
     IN  directory' = [directory EXCEPT ![n] =
                         Fact(f.node_name, f.pos, f.status, f.last_seq, now)]
  /\ UNCHANGED now

\* A newer frame replaces the position or the status, or neither; it erases nothing.
Accept(n) ==
  /\ n \in KnownNodes
  /\ \E seq \in Seq16 :
       /\ Newer(seq, directory[n].last_seq)
       /\ \E pos \in Positions \cup {directory[n].pos},
             status \in Statuses \cup {directory[n].status} :
            directory' = [directory EXCEPT ![n] =
                            Fact(directory[n].node_name, pos, status, seq, now)]
  /\ UNCHANGED now

\* A node never heard, or forgotten, takes a free place or that of one other node.
Admit(n) ==
  /\ n \notin KnownNodes
  /\ \E gone \in SUBSET Replaceable :
       /\ Cardinality(gone) = IF Cardinality(KnownNodes) < MaxNodes THEN 0 ELSE 1
       /\ \E pos \in Positions \cup {NoPos}, status \in Statuses \cup {NoStatus},
             seq \in Seq16 :
            directory' = [m \in (KnownNodes \ gone) \cup {n} |->
                            IF m # n THEN directory[m]
                            ELSE Fact(NoName, pos, status, seq, now)]
  /\ UNCHANGED now

\* The device writes its own entry.
Report ==
  /\ \E pos \in Positions \cup {directory[Self].pos}, name \in Names \cup {NoName},
        seen \in {now, directory[Self].last_seen} :
       directory' = [directory EXCEPT ![Self] =
                       Fact(name, pos, directory[Self].status, directory[Self].last_seq, seen)]
  /\ UNCHANGED now

Tick ==
  /\ now' = (now + 1) % TimeMod
  /\ UNCHANGED directory

Next ==
  \/ Tick
  \/ \E n \in Nodes : Refresh(n) \/ Accept(n) \/ Admit(n)
  \/ Report

Spec == Init /\ [][Next]_vars

================================================================================
