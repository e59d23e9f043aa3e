------------------------- MODULE MCProviderAdmission -------------------------
\* Instances of ProviderAdmission for TLC.
EXTENDS ProviderAdmission

=============================================================================
