-------------------------- MODULE MCProviderStream --------------------------
EXTENDS ProviderStream
=============================================================================
