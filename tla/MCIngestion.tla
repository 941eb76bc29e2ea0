---------------------------- MODULE MCIngestion ----------------------------
(* Ingestion on two resources: the first with two checks, the second with a
   certificate. *)
EXTENDS Ingestion

ThreeKeys == {1, 2, 3}
TwoResources == <<1, 1, 2>>
OneCertificate == {3}

Reading(key, at, state) == [key |-> key, at |-> at, state |-> state, print |-> NoCertificate]
Seen(at, print) == [key |-> 3, at |-> at, state |-> "healthy", print |-> print]
Batch(rs, observations) == [resources |-> rs, observations |-> observations]

(* An empty database, and one with a collection in it. *)
NoneOrOne == {{}, {Reading(1, 0, "healthy"), Seen(0, "a")}}

(* Resources in either order; observations without their resources, of earlier and
   later instants, repeated, contradicting, dated ahead; a certificate replaced or
   gone. *)
SomeBatches ==
    {Batch(<<1, 2>>, <<Reading(1, 0, "healthy"), Seen(2, "a")>>),
     Batch(<<2, 1>>, <<Reading(1, 1, "critical"), Seen(1, "b")>>),
     Batch(<<>>, <<Reading(1, 0, "critical")>>),
     Batch(<<>>, <<Reading(1, 2, "healthy"), Reading(2, 1, "disabled")>>),
     Batch(<<1>>, <<Reading(2, 0, "unknown"), Seen(1, NoCertificate)>>)}

(* A certificate, and a handshake that shows none. *)
CertificateBatches ==
    {Batch(<<1, 2>>, <<Reading(1, 0, "healthy"), Seen(0, "a")>>),
     Batch(<<1, 2>>, <<Reading(1, 1, "critical"), [Seen(1, NoCertificate) EXCEPT !.state = "critical"]>>)}
=============================================================================
