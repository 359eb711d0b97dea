---------------------------- MODULE MCInboundMail ----------------------------
(* InboundMail for TLC: two mails of one sender, two milliseconds, and the
   tightest latency budget, two steps of time to a stage. *)
EXTENDS InboundMail

=============================================================================
