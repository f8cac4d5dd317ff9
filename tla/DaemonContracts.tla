---------------------------- MODULE DaemonContracts ----------------------------
(***************************************************************************)
(* What crosses between the Python side and the daemon: the parameters of  *)
(* each method and the arguments the daemon reads them into, the reply the *)
(* daemon writes and the class it is decoded to.  One side is Python, the  *)
(* other Go, and nothing but JSON holds them together.                     *)
(*                                                                         *)
(* An object is the function from its fields to their types; of the reply  *)
(* to a method the types say whether a list may be null, as a Go slice is  *)
(* that nothing was put in.                                                *)
(***************************************************************************)
EXTENDS TLC

S(F) == [f \in F |-> "str"]
I(F) == [f \in F |-> "int"]
B(F) == [f \in F |-> "bool"]
D(F) == [f \in F |-> "float"]
L(F) == [f \in F |-> "strs"]
List(F) == [f \in F |-> "objects"]
Empty == S({})

-----------------------------------------------------------------------------
(* Parameters.  The values that are None are left out.                     *)

ReplyParams == S({"ReplyToMessageID", "ReplyParticipantJID", "ReplyQuotedMessageJSON"})

QueryParams ==
  [Ping |-> Empty, GetVersion |-> Empty, GetSessionStatus |-> Empty, GetContacts |-> Empty,
   GetGroups |-> Empty, ListEvents |-> I({"AfterID", "Limit"}), DeleteEvents |-> I({"UpToID"}),
   EnsureJID |-> S({"JID"}), GetGroupParticipants |-> S({"ChatJID"}),
   PrioritizeAvatars |-> L({"JIDs"}), MarkRead |-> S({"ChatJID", "SenderJID"}) @@ L({"MessageIDs"})]

SendParams ==
  [SendMessage |-> S({"ChatJID", "Type", "Text", "FilePath", "FileName", "Caption"})
                   @@ D({"Latitude", "Longitude"}) @@ I({"DurationSeconds"}) @@ B({"PTT"})
                   @@ ReplyParams @@ L({"MentionedJIDs"}),
   EditMessage |-> S({"ChatJID", "MessageID", "Text"}) @@ ReplyParams,
   DeleteMessage |-> S({"ChatJID", "MessageID"}),
   SendReaction |-> S({"ChatJID", "MessageID", "SenderJID", "Reaction"})]

OtherParams ==
  [GetChatSettings |-> S({"ChatJID"}), SendPresence |-> B({"Available"}),
   SubscribePresence |-> S({"JID"}), Logout |-> Empty, SetMuted |-> S({"ChatJID"}) @@ B({"Muted"}),
   DownloadMedia |-> S({"DirectPath", "MediaKey", "FileEncSHA256", "FileSHA256", "MediaType",
                        "Mimetype", "MessageID", "ChatID", "FileName"}) @@ I({"FileLength"}),
   SetNotificationCounter |-> I({"Count"}) @@ B({"Visible"}),
   ClearChatNotifications |-> L({"Tags"}), PairPhone |-> S({"Phone"})]

(* The requests of the client have these fields.                           *)
Params == QueryParams @@ SendParams @@ OtherParams

ReplyArgs == S({"ReplyToMessageID", "ReplyParticipantJID", "ReplyQuotedMessageJSON"})

(* The arguments the daemon declares.                                      *)
Args ==
  [Ping |-> Empty, GetVersion |-> Empty, GetSessionStatus |-> Empty, GetContacts |-> Empty,
   GetGroups |-> Empty, Logout |-> Empty,
   ListEvents |-> I({"AfterID", "Limit"}), DeleteEvents |-> I({"UpToID"}),
   EnsureJID |-> S({"JID"}), GetGroupParticipants |-> S({"ChatJID"}),
   PrioritizeAvatars |-> L({"JIDs"}), GetChatSettings |-> S({"ChatJID"}),
   MarkRead |-> S({"ChatJID", "SenderJID"}) @@ L({"MessageIDs"}),
   SendMessage |-> S({"ChatJID", "Type", "Text", "FilePath", "FileName", "Caption"})
                   @@ D({"Latitude", "Longitude"}) @@ I({"DurationSeconds"}) @@ B({"PTT"})
                   @@ ReplyArgs @@ L({"MentionedJIDs"}),
   EditMessage |-> S({"ChatJID", "MessageID", "Text"}) @@ ReplyArgs,
   DeleteMessage |-> S({"ChatJID", "MessageID"}),
   SendReaction |-> S({"ChatJID", "MessageID", "SenderJID", "Reaction"}),
   SetMuted |-> S({"ChatJID"}) @@ B({"Muted"}),
   DownloadMedia |-> S({"DirectPath", "MediaKey", "FileEncSHA256", "FileSHA256", "MediaType",
                        "Mimetype", "MessageID", "ChatID", "FileName"}) @@ I({"FileLength"}),
   SetNotificationCounter |-> I({"Count"}) @@ B({"Visible"}),
   ClearChatNotifications |-> L({"Tags"}), PairPhone |-> S({"Phone"}),
   SendPresence |-> B({"Available"}), SubscribePresence |-> S({"JID"})]

Methods == DOMAIN Args

(* An argument that is not sent is zero; one that is unknown is dropped.   *)
Understood(method) ==
  LET p == Params[method] a == Args[method] IN
  \A f \in DOMAIN p : f \in DOMAIN a /\ p[f] = a[f]

-----------------------------------------------------------------------------
(* Replies.                                                                *)

Sent ==
  [GetVersion |-> S({"GitCommit"}),
   GetSessionStatus |-> B({"LoggedIn"}) @@ S({"QRCode", "QRImage"}),
   GetContacts |-> List({"Contacts"}), GetGroups |-> List({"Groups"}),
   GetGroupParticipants |-> List({"Participants"}), ListEvents |-> List({"Events"}),
   EnsureJID |-> S({"JID"}), GetChatSettings |-> I({"MutedUntil"}),
   SendMessage |-> S({"MessageID"}) @@ I({"Timestamp"}),
   EditMessage |-> S({"MessageID"}) @@ I({"Timestamp"}),
   DeleteMessage |-> S({"MessageID"}) @@ I({"Timestamp"}),
   SendReaction |-> S({"MessageID", "OwnJID"}) @@ I({"Timestamp"}),
   DownloadMedia |-> S({"FilePath"}), PairPhone |-> S({"Code"})]

(* The objects in the lists, and the lists made by declaring a slice and   *)
(* appending to it; the other lists are made empty.                        *)
SentObjects ==
  [GetContacts |-> S({"jid", "display_name", "first_name", "full_name", "push_name",
                      "business_name", "avatar_path"}),
   GetGroups |-> S({"jid", "name", "topic", "avatar_path"}) @@ I({"participant_count"})
                 @@ List({"participants"}),
   GetGroupParticipants |-> S({"jid", "phone_number_jid", "lid_jid", "display_name"})
                            @@ B({"is_admin", "is_super_admin"}),
   ListEvents |-> S({"event_type", "payload"}) @@ I({"id", "created_at"})]

Nullable == {"ListEvents"}

(* The classes of the client: what a reply has to have.                    *)
Decoded ==
  [GetVersion |-> S({"GitCommit"}),
   GetSessionStatus |-> B({"LoggedIn"}) @@ S({"QRCode", "QRImage"}),
   GetContacts |-> List({"Contacts"}), GetGroups |-> List({"Groups"}),
   GetGroupParticipants |-> List({"Participants"}), ListEvents |-> List({"Events"}),
   EnsureJID |-> S({"JID"}), GetChatSettings |-> I({"MutedUntil"}),
   SendMessage |-> S({"MessageID"}) @@ I({"Timestamp"}),
   EditMessage |-> S({"MessageID"}) @@ I({"Timestamp"}),
   DeleteMessage |-> S({"MessageID"}) @@ I({"Timestamp"}),
   SendReaction |-> S({"MessageID", "OwnJID"}) @@ I({"Timestamp"}),
   DownloadMedia |-> S({"FilePath"}), PairPhone |-> S({"Code"})]

DecodedObjects ==
  [GetContacts |-> S({"jid", "display_name", "first_name", "full_name", "push_name",
                      "business_name", "avatar_path"}),
   GetGroups |-> S({"jid", "name", "topic", "avatar_path"}),
   GetGroupParticipants |-> S({"jid", "phone_number_jid", "lid_jid", "display_name"})
                            @@ B({"is_admin", "is_super_admin"}),
   ListEvents |-> S({"event_type", "payload"}) @@ I({"id", "created_at"})]

(* Mutation: a null list of events is not replaced.                        *)
GroupsOnly == {"GetGroups", "GetGroupParticipants"}

(* _with_empty_list, _normalize_groups_reply                               *)
NullReplaced == {"GetGroups", "GetGroupParticipants", "ListEvents"}

Has(object, class) == \A f \in DOMAIN class : f \in DOMAIN object /\ object[f] = class[f]

(* _decode_reply: fields that are not known are dropped.  Ping replies     *)
(* "pong", and what the methods without a reply send is not looked at.     *)
Decodes(method, null) ==
  \/ method \notin DOMAIN Decoded
  \/ /\ Has(Sent[method], Decoded[method])
     /\ method \in DOMAIN SentObjects => Has(SentObjects[method], DecodedObjects[method])
     /\ null /\ method \in Nullable => method \in NullReplaced
=============================================================================
