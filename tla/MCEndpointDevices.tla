-------------------------- MODULE MCEndpointDevices --------------------------
EXTENDS EndpointDevices, TLC

CONSTANTS d1, d2, a1, a2, ssh_port

Services == {"ssh"}
ServiceOnPort == ssh_port :> "ssh"
HomeOf == (d1 :> a1) @@ (d2 :> a2)
=============================================================================
