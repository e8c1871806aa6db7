-------------------------- MODULE MCSettingsForms --------------------------
(***************************************************************************)
(* The instance of SettingsForms for TLC. The server names have the length *)
(* at which that of the packet first needs two bytes, 30, and the length   *)
(* at which the first zero of the extensions is gone, 247.                 *)
(***************************************************************************)
EXTENDS SettingsForms

MCSniLength == [d \in {"name30", "name247"} |->
                  IF d = "name30" THEN 30 ELSE 247]

Awg2 == [f \in Fields |-> CASE f = "listen_port" -> "51820"
                             [] f = "address" -> "10.8.0.1/24"
                             [] f = "s4" -> "10"
                             [] f = "private_key" -> "private"
                             [] OTHER -> ""]

MCStored == {Awg2, [Awg2 EXCEPT !["s4"] = "12", !["header_protection_key"] = "key",
                                !["random_trailers"] = "on"]}
=============================================================================
