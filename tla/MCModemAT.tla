----------------------------- MODULE MCModemAT -----------------------------
\* Model-checking instance of ModemAT: one command to configure the modem, or none.
EXTENDS ModemAT

Configured == <<"CFG">>

\* A site without modem_init.
NoCommands == <<>>
=============================================================================
