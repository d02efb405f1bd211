---------------------------- MODULE MCScriptInf ----------------------------
EXTENDS ScriptInf, TLC

CONSTANTS s1, s2, dev, cli, srv

TwoScripts == {s1, s2}
ThreeConfigs == {dev, cli, srv}
OneEach == (dev :> "device") @@ (cli :> "client") @@ (srv :> "server")
OneSaved == {dev}
=============================================================================
