------------------------- MODULE MCProviderFailover -------------------------
EXTENDS ProviderFailover

\* The primary is named once more among the reserves.
MCConfigured == <<"groq", "groq", "ollama">>

=============================================================================
