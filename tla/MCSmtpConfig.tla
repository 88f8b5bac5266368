---------------------------- MODULE MCSmtpConfig ----------------------------
(***************************************************************************)
(* Two requests at a time, two relays, two passwords.                      *)
(***************************************************************************)
EXTENDS SmtpConfig

=============================================================================
