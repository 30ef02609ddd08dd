---------------------------- MODULE PacketReadMC ----------------------------
(***************************************************************************)
(* Digits of base 2, so that bytes are 0..3: a packet without a rest, one  *)
(* with two digits of length whose rest looks like other packets, and one  *)
(* that does not fit into the six bytes of buf.                            *)
(***************************************************************************)
EXTENDS PacketRead

MCPackets == {[type |-> 1, body |-> <<>>], [type |-> 2, body |-> <<3, 2, 1>>],
              [type |-> 3, body |-> <<1, 2, 3, 3>>]}

MCFitting == {p \in MCPackets : Fits(p)}
=============================================================================
