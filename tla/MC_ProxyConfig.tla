-------------------------- MODULE MC_ProxyConfig --------------------------
(* ProxyConfig for TLC: every combination of flag values.                  *)
EXTENDS ProxyConfig
=============================================================================
