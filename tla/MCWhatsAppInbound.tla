------------------------- MODULE MCWhatsAppInbound -------------------------
(***************************************************************************)
(* Instances of WhatsAppInbound.  One group of definitions per scenario:   *)
(* which deliveries carry which messages.  A message is named after what   *)
(* it is, so that its kind and sender are the same in every scenario.      *)
(***************************************************************************)
EXTENDS WhatsAppInbound, TLC

CONSTANTS t1, t2, t3,                                  \* deliveries
          ask, stop, start, photo,                     \* messages of ana
          unsub,                                       \* a message of ben
          ana, ben

KindOfName == ask :> "text" @@ stop :> "stop" @@ start :> "start"
              @@ unsub :> "stopPhrase" @@ photo :> "media"
MsgNames   == DOMAIN KindOfName
PhoneNames == {ana, ben}
PhoneOfName == [m \in MsgNames |-> IF m = unsub THEN ben ELSE ana]

\* A question delivered twice, the first time in front of a STOP.
RedeliveryTask  == {t1, t2}
RedeliveryBatch == t1 :> <<ask, stop>> @@ t2 :> <<ask>>

\* A STOP followed by a photo and a START of one sender, and a sentence of another
\* that asks to stop, all competing for the send permit.
ConsentTask  == {t1, t2, t3}
ConsentBatch == t1 :> <<unsub>> @@ t2 :> <<stop, photo>> @@ t3 :> <<start>>

\* Nobody but the sender of the STOP writes, and nothing comes back.
StopTask  == {t1}
StopMsg   == {stop, photo}
StopPhoneOf == [m \in StopMsg |-> ana]
StopKindOf  == [m \in StopMsg |-> KindOfName[m]]
StopBatch == t1 :> <<stop, photo>>
=============================================================================
