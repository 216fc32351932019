---------------------------- MODULE MCWorkQueue -----------------------------
EXTENDS WorkQueue
CONSTANTS x, y, z
MCMatrix == {<<y>>, <<z>>}
MCEarlier == <<x, y>>
MCProviderOf == (x :> "anthropic") @@ (y :> "deepseek") @@ (z :> "openai")
MCPriority == <<"deepseek", "anthropic", "openai">>
=============================================================================
