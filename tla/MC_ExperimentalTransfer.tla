---------------------- MODULE MC_ExperimentalTransfer ----------------------
EXTENDS ExperimentalTransfer

MCContact(budget, limit, exact, disconnects) ==
    [budget |-> budget, limit |-> limit, exact |-> exact, disconnects |-> disconnects]

\* A wide one; one whose budget and limit leave two octets of payload; one that
\* breaks off; one too narrow for an OFFER; one with wrong octets; one that is
\* dead from the start.
MCContacts ==
    { MCContact(300, 128, TRUE, "never"), MCContact(130, 80, TRUE, "later"),
      MCContact(64, 128, TRUE, "never"), MCContact(300, 60, TRUE, "never"),
      MCContact(300, 80, FALSE, "never"), MCContact(64, 128, FALSE, "never"),
      MCContact(300, 128, TRUE, "at_once") }
=============================================================================
