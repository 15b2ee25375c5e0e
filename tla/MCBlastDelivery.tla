--------------------------- MODULE MCBlastDelivery ----------------------------
(* Small instances of BlastDelivery. *)
EXTENDS BlastDelivery

CONSTANTS b1, b2, s1, s2, s3, sms, signal

OneBlast == {b1}
TwoBlasts == {b1, b2}
One == {s1}
Two == {s1, s2}
Three == {s1, s2, s3}

SmsOnly == {sms}
BothChannels == {sms, signal}

\* Everybody by SMS.
BySms == [s \in Subscribers |-> sms]
\* One recipient by Signal, one by SMS, one without a verified channel.
Mixed == [s \in Subscribers |-> IF s = s1 THEN signal ELSE IF s = s2 THEN sms ELSE NoChannel]
===============================================================================
