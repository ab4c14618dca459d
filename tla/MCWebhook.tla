----------------------------- MODULE MCWebhook -----------------------------
(* Webhook with three bodies: a message alone, the same message batched    *)
(* with a second one and with items nobody wants, and a malformed batch.   *)
EXTENDS Webhook, TLC

CONSTANTS t1, t2, club, hall, customer, mid1, mid2, mid3, mid4

MCThreads == {t1, t2}
MCAccounts == {club, hall}
MCCustomers == {customer}
MCMids == {mid1, mid2, mid3, mid4}
MCConfigurations == {{club}, {club, hall}}
MCBodies == {"single", "batch", "malformed"}

Message(mid, kind, sender, entry, recipient) ==
  [mid |-> mid, kind |-> kind, sender |-> sender, entry |-> entry, recipient |-> recipient]

MCItems ==
  [b \in MCBodies |->
    CASE b = "single" -> <<Message(mid1, "text", customer, club, club)>>
      [] b = "batch" -> <<Message(mid1, "text", customer, club, club),
                          Message(mid2, "text", customer, hall, hall),
                          Message(mid3, "text", customer, club, hall),
                          Message(mid3, "other", club, club, club),
                          Message(mid4, "text", club, club, customer)>>
      [] b = "malformed" -> <<Message(mid1, "text", customer, club, club),
                              Message(mid4, "invalid", customer, hall, hall)>>]
=============================================================================
