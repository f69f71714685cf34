-------------------------- MODULE MC_WatchAgents --------------------------
(* An instance of WatchAgents.                                             *)
EXTENDS WatchAgents

CONSTANTS p1, p2

(* LeavesRow says what folding Applied over the messages does: checked     *)
(* over every client and every outbox of up to three messages.             *)
SmallRows  == {NoRow, Row(1)}
SmallLists == [Panes -> SmallRows]
SmallMsgs  == {SnapshotMsg(l) : l \in SmallLists}
                \cup {SetMsg(p, r) : p \in Panes, r \in SmallRows}

ASSUME LeavesRowIsTheFold ==
  \A v \in SmallLists : \A msgs \in BoundedSeq(SmallMsgs, 3) :
    \A p \in Panes, row \in SmallRows :
      LeavesRow(v, msgs, p, row) <=> FoldLeft(Applied, v, msgs)[p] = row
=============================================================================
