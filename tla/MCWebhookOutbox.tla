-------------------------- MODULE MCWebhookOutbox ---------------------------
(* TLC instances of WebhookOutbox: see the README for the bounds.          *)
EXTENDS WebhookOutbox, TLC

=============================================================================
