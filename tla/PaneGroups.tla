----------------------------- MODULE PaneGroups -----------------------------
(***************************************************************************)
(* What the split layout promises, without its tree: panes are groups of   *)
(* tabs, each with the tab it shows, and one of them has the focus.  A tab *)
(* stays in one pane until it is closed, and a pane without tabs is gone,  *)
(* unless it is the only one.                                              *)
(***************************************************************************)
CONSTANTS
  Tabs,
  NoTab,         (* what an empty pane shows                               *)
  PaneIds

VARIABLES
  panes,         (* the panes there are, with their tabs and the shown one *)
  focused        (* the pane that has the focus                            *)

vars == <<panes, focused>>

Group == [tabs : SUBSET Tabs, active : Tabs \cup {NoTab}]

TypeOK ==
  /\ \E live \in SUBSET PaneIds : panes \in [live -> Group]
  /\ focused \in PaneIds

Opened == UNION {panes[p].tabs : p \in DOMAIN panes}

(* One pane, with one tab or none.                                         *)
Init ==
  \E first \in PaneIds, t \in Tabs \cup {NoTab} :
    /\ panes = [p \in {first} |-> [tabs |-> {t} \ {NoTab}, active |-> t]]
    /\ focused = first

-----------------------------------------------------------------------------
(* What pane p holds once t has left, and what it may then show.           *)
Rest(p, t) == panes[p].tabs \ {t}

Shown(p, t) ==
  IF panes[p].active # t THEN {panes[p].active}
  ELSE IF Rest(p, t) = {} THEN {NoTab} ELSE Rest(p, t)

(* A new tab joins a pane, is shown there, and the pane gets the focus.    *)
Open(t, p) ==
  /\ t \notin Opened
  /\ panes' = [panes EXCEPT ![p] = [tabs |-> @.tabs \cup {t}, active |-> t]]
  /\ focused' = p

(* A tab leaves; a pane it leaves empty goes, and the focus with it.       *)
Close(t) ==
  \E p \in DOMAIN panes :
    /\ t \in panes[p].tabs
    /\ LET live == IF Rest(p, t) = {} /\ DOMAIN panes # {p}
                   THEN DOMAIN panes \ {p} ELSE DOMAIN panes
       IN /\ \E a \in Shown(p, t) :
               panes' = [q \in live |->
                           IF q = p THEN [tabs |-> Rest(p, t), active |-> a]
                                    ELSE panes[q]]
          /\ focused' \in live
          /\ focused \in live => focused' = focused

(* A tab moves to another pane, or to a new one; it is shown there, and    *)
(* that pane gets the focus.                                               *)
Move(t, dst) ==
  \E p \in DOMAIN panes :
    /\ t \in panes[p].tabs
    /\ dst # p
    /\ LET there == IF dst \in DOMAIN panes THEN panes[dst].tabs ELSE {}
           live == (DOMAIN panes \cup {dst})
                     \ (IF Rest(p, t) = {} THEN {p} ELSE {})
       IN \E a \in Shown(p, t) :
            panes' = [q \in live |->
                        CASE q = dst -> [tabs |-> there \cup {t}, active |-> t]
                          [] q = p   -> [tabs |-> Rest(p, t), active |-> a]
                          [] OTHER   -> panes[q]]
    /\ focused' = dst

(* The user picks a pane, and maybe one of its tabs.                       *)
Select(t, p) ==
  /\ t \in panes[p].tabs
  /\ panes' = [panes EXCEPT ![p].active = t]
  /\ focused' = p

Focus(p) ==
  /\ focused' = p
  /\ UNCHANGED panes

Next ==
  \/ \E t \in Tabs, p \in DOMAIN panes : Open(t, p) \/ Select(t, p)
  \/ \E t \in Tabs : Close(t)
  \/ \E t \in Tabs, dst \in PaneIds : Move(t, dst)
  \/ \E p \in DOMAIN panes : Focus(p)

Spec == Init /\ [][Next]_vars

-----------------------------------------------------------------------------
(* A tab is in one pane only.                                              *)
OnePanePerTab ==
  \A p, q \in DOMAIN panes : panes[p].tabs \cap panes[q].tabs # {} => p = q

(* A pane shows one of its tabs, and there is no empty pane beside others. *)
PaneShowsItsTab ==
  \A p \in DOMAIN panes :
    IF panes[p].tabs = {} THEN panes[p].active = NoTab /\ DOMAIN panes = {p}
                          ELSE panes[p].active \in panes[p].tabs

(* The pane with the focus exists: keys and the sidebar have a tab to act  *)
(* on.                                                                     *)
FocusIsLive == focused \in DOMAIN panes
=============================================================================
