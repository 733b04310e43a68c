----------------------------- MODULE MCHubWork -----------------------------
\* Instances of HubWork for TLC.
EXTENDS HubWork

=============================================================================
