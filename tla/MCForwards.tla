----------------------------- MODULE MCForwards -----------------------------
(* A remote, a local and a dynamic forward of one port number: the last two, one
   bound to the loopback address and one to all addresses, compete for it. *)
EXTENDS Forwards

MCForward ==
  << [kind |-> "remote", port |-> 8080, at |-> {}, target |-> "web"],
     [kind |-> "local", port |-> 8080, at |-> {"loopback"}, target |-> "db"],
     [kind |-> "dynamic", port |-> 8080, at |-> {"loopback", "lan"}, target |-> "none"] >>
=============================================================================
