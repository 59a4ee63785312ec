----------------------------- MODULE PushDevices -----------------------------
(***************************************************************************)
(* NotificationsService with its queue, and the device tokens of           *)
(* UsersService: which devices a push for a user goes to, while users log   *)
(* in and out of devices and apps are removed.                             *)
(*                                                                         *)
(* A device is known twice: as a row of DeviceToken, one user's at a time,  *)
(* and as User.fcmToken, the last of a user.  Firebase is configured.       *)
(***************************************************************************)
EXTENDS FiniteSets

CONSTANTS Owners, Devices,
          DeviceCalls, \* requests to register or unregister a device
          Pushes       \* notifications sent to a user

VARIABLES deviceToken, \* the user a device's row names, or none
          fcmToken,    \* User.fcmToken: a device, or none
          removed,     \* devices whose app is gone: Firebase refuses their token
          deviceCall,  \* a request to register or unregister
          push,        \* a notification and its job
          reached      \* the devices a notification was shown on

deviceVars == <<deviceToken, fcmToken, removed, deviceCall>>
pushVars == <<deviceVars, push, reached>>

NoOne == "none"
IdleCall == [stage |-> "idle", job |-> "none", user |-> NoOne, device |-> NoOne]
NoPush == [stage |-> "idle", user |-> NoOne, isRead |-> FALSE, stored |-> FALSE,
           fcm |-> NoOne, tokens |-> {}, refused |-> {}]

PushInit ==
  /\ deviceToken = [d \in Devices |-> NoOne]
  /\ fcmToken = [u \in Owners |-> NoOne]
  /\ removed = {}
  /\ deviceCall = [c \in DeviceCalls |-> IdleCall]
  /\ push = [n \in Pushes |-> NoPush]
  /\ reached = [n \in Pushes |-> {}]

-----------------------------------------------------------------------------
(* registerDeviceToken, updateFcmToken, unregisterDeviceToken               *)

CallAt(c, stage) == deviceCall[c].stage = stage
CallGoes(c, stage) ==
  deviceCall' = [deviceCall EXCEPT ![c] = IF stage = "idle" THEN IdleCall ELSE [@ EXCEPT !.stage = stage]]

(* The row is made, or given to the user                                    *)
RegisterDevice(c, u, d, job) ==
  /\ CallAt(c, "idle") /\ d \notin removed
  /\ deviceToken' = [deviceToken EXCEPT ![d] = u]
  /\ deviceCall' = [deviceCall EXCEPT ![c] = [stage |-> "sync", job |-> job, user |-> u, device |-> d]]
  /\ UNCHANGED <<fcmToken, removed, push, reached>>

(* updateFcmToken goes on when that fails                                   *)
RegisterFails(c, u, d) ==
  /\ CallAt(c, "idle") /\ d \notin removed
  /\ deviceCall' = [deviceCall EXCEPT ![c] = [stage |-> "write", job |-> "update", user |-> u, device |-> d]]
  /\ UNCHANGED <<deviceToken, fcmToken, removed, push, reached>>

(* User.fcmToken follows; a failure is swallowed.  updateFcmToken writes it  *)
(* once more                                                               *)
SyncFcmToken(c) ==
  /\ CallAt(c, "sync")
  /\ fcmToken' \in {fcmToken, [fcmToken EXCEPT ![deviceCall[c].user] = deviceCall[c].device]}
  /\ CallGoes(c, IF deviceCall[c].job = "update" THEN "write" ELSE "idle")
  /\ UNCHANGED <<deviceToken, removed, push, reached>>

WriteFcmToken(c) ==
  /\ CallAt(c, "write")
  /\ fcmToken' = [fcmToken EXCEPT ![deviceCall[c].user] = deviceCall[c].device]
  /\ CallGoes(c, "idle")
  /\ UNCHANGED <<deviceToken, removed, push, reached>>

(* Rows of the user only: of one device, or of all.  Here too, and when rows *)
(* of refused tokens are deleted, a failure is swallowed                    *)
UnregisterDevices(c, u, devices) ==
  /\ CallAt(c, "idle")
  /\ deviceToken' \in {deviceToken, [d \in Devices |->
       IF d \in devices /\ deviceToken[d] = u THEN NoOne ELSE deviceToken[d]]}
  /\ deviceCall' = [deviceCall EXCEPT ![c] = [IdleCall EXCEPT !.stage = "clear", !.user = u]]
  /\ UNCHANGED <<fcmToken, removed, push, reached>>

ClearFcmToken(c) ==
  /\ CallAt(c, "clear")
  /\ fcmToken' \in {fcmToken, [fcmToken EXCEPT ![deviceCall[c].user] = NoOne]}
  /\ CallGoes(c, "idle")
  /\ UNCHANGED <<deviceToken, removed, push, reached>>

DeviceCallDies(c) ==
  /\ ~CallAt(c, "idle") /\ CallGoes(c, "idle")
  /\ UNCHANGED <<deviceToken, fcmToken, removed, push, reached>>

RemoveApp(d) ==
  /\ removed' = removed \union {d}
  /\ UNCHANGED <<deviceToken, fcmToken, deviceCall, push, reached>>

-----------------------------------------------------------------------------
(* sendPushNotification: the notification is stored, or the failure logged; *)
(* the job is queued, or done at once if the queue refuses it               *)

PushAt(n, stage) == push[n].stage = stage
PushGoes(n, stage) == push' = [push EXCEPT ![n].stage = stage]

SendPush(n, u) ==
  /\ PushAt(n, "idle")
  /\ \E stored \in BOOLEAN :
       push' = [push EXCEPT ![n] = [NoPush EXCEPT !.stage = "devices", !.user = u, !.stored = stored]]
  /\ UNCHANGED <<deviceVars, reached>>

(* executePushNotification.  A job that stalled, or whose query failed, is   *)
(* run from the start                                                      *)
ReadDevices(n) ==
  /\ PushAt(n, "devices")
  /\ push' = [push EXCEPT ![n].stage = "user",
                          ![n].tokens = {d \in Devices : deviceToken[d] = push[n].user}]
  /\ UNCHANGED <<deviceVars, reached>>

ReadFcmToken(n) ==
  LET fcm == fcmToken[push[n].user]
      tokens == push[n].tokens \union ({fcm} \ {NoOne})
  IN  /\ PushAt(n, "user")
      /\ push' = [push EXCEPT ![n].stage = IF tokens = {} THEN "done" ELSE "send",
                              ![n].fcm = fcm, ![n].tokens = tokens]
      /\ UNCHANGED <<deviceVars, reached>>

(* sendEachForMulticast fails as a whole, which is logged, or token by token *)
Multicast(n) ==
  /\ PushAt(n, "send")
  /\ \/ PushGoes(n, "done") /\ UNCHANGED reached
     \/ LET refused == push[n].tokens \cap removed
        IN  /\ reached' = [reached EXCEPT ![n] = @ \union (push[n].tokens \ refused)]
            /\ push' = [push EXCEPT ![n].stage = IF refused = {} THEN "done" ELSE "prune",
                                    ![n].refused = refused]
  /\ UNCHANGED deviceVars

PruneDevices(n) ==
  /\ PushAt(n, "prune")
  /\ deviceToken' \in {deviceToken,
       [d \in Devices |-> IF d \in push[n].refused THEN NoOne ELSE deviceToken[d]]}
  /\ PushGoes(n, IF push[n].fcm \in push[n].refused THEN "pruneUser" ELSE "done")
  /\ UNCHANGED <<fcmToken, removed, deviceCall, reached>>

(* The user's token is cleared, be it the one that was refused or not        *)
PruneFcmToken(n) ==
  /\ PushAt(n, "pruneUser")
  /\ fcmToken' \in {fcmToken, [fcmToken EXCEPT ![push[n].user] = NoOne]}
  /\ PushGoes(n, "done")
  /\ UNCHANGED <<deviceToken, removed, deviceCall, reached>>

PushRunsAgain(n) ==
  /\ push[n].stage \in {"user", "send", "prune", "pruneUser"}
  /\ push' = [push EXCEPT ![n] = [@ EXCEPT !.stage = "devices", !.fcm = NoOne,
                                            !.tokens = {}, !.refused = {}]]
  /\ UNCHANGED <<deviceVars, reached>>

(* updateStatus and markAllAsRead: the user's own notifications             *)
UpdateStatus(n, isRead) ==
  /\ push[n].stored /\ push' = [push EXCEPT ![n].isRead = isRead]
  /\ UNCHANGED <<deviceVars, reached>>

MarkAllAsRead(u) ==
  /\ push' = [n \in Pushes |->
       IF push[n].stored /\ push[n].user = u THEN [push[n] EXCEPT !.isRead = TRUE] ELSE push[n]]
  /\ UNCHANGED <<deviceVars, reached>>

-----------------------------------------------------------------------------
PushNext ==
  \/ \E c \in DeviceCalls, u \in Owners, d \in Devices, job \in {"register", "update"} :
       RegisterDevice(c, u, d, job)
  \/ \E c \in DeviceCalls, u \in Owners, d \in Devices : RegisterFails(c, u, d)
  \/ \E c \in DeviceCalls, u \in Owners, devices \in {{d} : d \in Devices} \union {Devices} :
       UnregisterDevices(c, u, devices)
  \/ \E c \in DeviceCalls :
       SyncFcmToken(c) \/ WriteFcmToken(c) \/ ClearFcmToken(c) \/ DeviceCallDies(c)
  \/ \E d \in Devices : RemoveApp(d)
  \/ \E n \in Pushes, u \in Owners : SendPush(n, u)
  \/ \E n \in Pushes :
       \/ ReadDevices(n) \/ ReadFcmToken(n) \/ Multicast(n)
       \/ PruneDevices(n) \/ PruneFcmToken(n) \/ PushRunsAgain(n)
  \/ \E n \in Pushes, isRead \in BOOLEAN : UpdateStatus(n, isRead)
  \/ \E u \in Owners : MarkAllAsRead(u)

PushSpec == PushInit /\ [][PushNext]_pushVars

-----------------------------------------------------------------------------
(* Properties                                                              *)

PushTypeOK ==
  /\ deviceToken \in [Devices -> Owners \union {NoOne}]
  /\ fcmToken \in [Owners -> Devices \union {NoOne}]
  /\ removed \subseteq Devices
  /\ \A c \in DeviceCalls : deviceCall[c].stage \in {"idle", "sync", "write", "clear"}
  /\ \A n \in Pushes :
       /\ push[n].stage \in {"idle", "devices", "user", "send", "prune", "pruneUser", "done"}
       /\ push[n].refused \subseteq push[n].tokens /\ push[n].tokens \subseteq Devices
       /\ push[n].stored => push[n].user \in Owners

==============================================================================
