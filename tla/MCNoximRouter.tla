--------------------------- MODULE MCNoximRouter ---------------------------
(* Input VCs of the runs of NoximRouter. *)
EXTENDS NoximRouter

\* Port 0 with two VCs and the local port 2 with one: both kinds of arbiters,
\* between the VCs of a port and between ports, are contended.
TwoAndOne == {<<0, 0>>, <<0, 1>>, <<2, 0>>}

\* The two VCs of port 0.
TwoVCs == {<<0, 0>>, <<0, 1>>}

\* One VC on either port.
OneAndOne == {<<0, 0>>, <<2, 0>>}

=============================================================================
