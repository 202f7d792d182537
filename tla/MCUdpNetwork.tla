---------------------------- MODULE MCUdpNetwork ----------------------------
(* Queues that hold two items: two datagrams fill one, so that the NULL of  *)
(* udp_stop is refused, and three packets overflow the other.               *)
EXTENDS UdpNetwork

MCSize == 3
MCMaxRecv == 2
MCMaxSend == 3
=============================================================================
