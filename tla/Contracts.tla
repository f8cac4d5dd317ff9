------------------------------- MODULE Contracts -------------------------------
(***************************************************************************)
(* What crosses between the pages and the Python side: the arguments the   *)
(* pages pass and the requests they are decoded to, the answers the        *)
(* handlers return, the events they send, and the contracts all of these   *)
(* are checked against.  Each side was written on its own; an answer that  *)
(* does not fit raises, and the page that asked is never called back.      *)
(*                                                                         *)
(* An object is the function from its fields to their types.  The type of  *)
(* a field that holds objects is the name of the field: Inner gives the    *)
(* class of those objects.                                                 *)
(***************************************************************************)
EXTENDS Naturals, Sequences, TLC

Str(F) == [f \in F |-> "str"]
Int(F) == [f \in F |-> "int"]
Bool(F) == [f \in F |-> "bool"]
Strs(F) == [f \in F |-> "strs"]
Receipt(F) == [f \in F |-> "enum"]
Of(F) == [f \in F |-> f]

Inner == [mention_spans |-> "MentionSpan", chats |-> "ChatListEntry", messages |-> "UiMessage",
          contacts |-> "ContactItem", reactions |-> "MessageReactionItem", chat |-> "ChatListItem",
          candidates |-> "MentionCandidate", members |-> "ChatInfoMember"]

-----------------------------------------------------------------------------
(* The classes of the Python side.                                         *)

ChatListItem ==
  Str({"id", "name", "photo", "last_message", "date", "first_unread_message_id", "last_message_type",
       "full_name", "push_name", "business_name"})
  @@ Int({"last_message_timestamp", "unread_count", "name_updated_at"})
  @@ Bool({"is_group", "muted", "archived"})
  @@ Receipt({"read_receipt"}) @@ Strs({"last_message_mentioned_jids"})

MentionSpan == Str({"jid", "label"}) @@ Int({"start", "length"})

Message ==
  Str({"id", "chat_id", "timestamp", "sender", "sender_raw", "text", "rendered_text",
       "rendered_formatted_text", "text_render_mode", "image_source", "caption", "duration",
       "sticker_source", "media_path", "thumbnail_path", "mimetype", "file_name", "send_status",
       "temp_id", "reply_to_id", "reply_to_sender_id", "reply_to_sender_raw", "reply_to_text",
       "button_text", "button_url", "link_title", "link_description", "link_url"})
  @@ Int({"timestamp_unix"}) @@ Receipt({"type", "read_receipt"})
  @@ Bool({"is_outgoing", "edited", "has_reactions", "reply_to_from_me"})
  @@ Strs({"mentioned_jids", "reply_to_mentioned_jids"}) @@ Of({"mention_spans"})

UiMessage ==
  Message @@ Str({"formatted_text", "formatted_caption", "formatted_reply_to_text", "sender_name",
                  "sender_photo", "reply_to_sender"})

Reaction == Str({"jid", "name", "photo", "emoji"}) @@ Bool({"is_self"})
Said == Bool({"success"}) @@ Str({"message"})

(* The objects within the answers and the events, and the answers.         *)
Classes ==
  [ChatListItem |-> ChatListItem,
   ChatListEntry |-> ChatListItem @@ Str({"draft"}) @@ Bool({"has_draft"}),
   MentionSpan |-> MentionSpan, UiMessage |-> UiMessage,
   ContactItem |-> Str({"jid", "display_name", "first_name", "full_name", "push_name",
                        "business_name", "photo"}),
   MessageReactionItem |-> Reaction,
   MessageReactionUpdate |-> Reaction @@ Str({"chat_id", "message_id"}) @@ Bool({"removed"}),
   MentionCandidate |-> Str({"jid", "label", "photo"}) @@ Bool({"is_admin", "is_super_admin"}),
   ChatInfoMember |-> Str({"jid", "name", "photo"}),
   SenderPhoto |-> Str({"jid", "photo"}), Presence |-> Str({"jid", "status"}),
   ChatPresence |-> Str({"chat", "sender", "state", "media"}) @@ Bool({"is_group"}),
   ChatDraft |-> Str({"id", "draft"}) @@ Bool({"has_draft"})]

StartChat(success) == Said @@ [chat |-> IF success THEN "chat" ELSE "null"]

ChatInfo(success) ==
  Bool({"success"})
  @@ IF success
     THEN Str({"id", "name", "photo", "first_unread_message_id", "description"})
          @@ Bool({"is_group", "muted"}) @@ Int({"unread_count", "member_count"}) @@ Of({"members"})
     ELSE Str({})

Replies(success) ==
  [SuccessResponse |-> Said, ChatListResponse |-> Said @@ Of({"chats"}),
   MessagesResponse |-> Said @@ Str({"next_cursor"}) @@ Bool({"has_more"}) @@ Of({"messages"}),
   ContactListResponse |-> Said @@ Of({"contacts"}),
   MessageReactionsResponse |-> Said @@ Of({"reactions"}),
   ChatInfoResponse |-> ChatInfo(success), StartChatByPhoneResponse |-> StartChat(success),
   ChatDraftResponse |-> Bool({"success"}) @@ Str({"text"}) @@ Of({"mention_spans"}),
   GroupMentionCandidatesResponse |-> Said @@ Of({"candidates"}),
   SessionStatusResponse |-> Bool({"logged_in"}) @@ Str({"qr_image_path"}),
   DaemonStatusResponse |-> Bool({"installed", "active"}),
   EnsureDaemonVersionResponse |-> Bool({"restarted"}), ClearDataResponse |-> Bool({"success"}),
   PairPhoneResponse |-> Said @@ Str({"code"}),
   SettingsResponse |-> Bool({"success", "notifications_suppressed", "stop_daemon_on_exit",
                              "error_reporting"}) @@ Str({"release_version", "build_version"}),
   PhoneNumberResponse |-> Bool({"success"}) @@ Str({"phone_number"}),
   DownloadMediaResponse |-> Said @@ Str({"media_path"}),
   CachedStickersResponse |-> Bool({"success"}) @@ Strs({"stickers"})]

(* dataclass_to_dict and enum_to_str: an enum becomes its value.           *)
AsDict(object) == [f \in DOMAIN object |-> IF object[f] = "enum" THEN "str" ELSE object[f]]

-----------------------------------------------------------------------------
(* The contracts.  The keys of an item are those of its class; the types   *)
(* are listed.                                                             *)

Checked(keys, types) == [keys |-> keys, types |-> types]
Exactly(types) == Checked(DOMAIN types, types)

BaseChatTypes ==
  Str({"id", "name", "photo", "last_message", "date", "read_receipt", "last_message_type",
       "full_name", "push_name", "business_name", "first_unread_message_id"})
  @@ Int({"last_message_timestamp", "unread_count", "name_updated_at"})
  @@ Bool({"is_group", "muted", "archived"}) @@ Strs({"last_message_mentioned_jids"})

UiMessageTypes ==
  Str({"id", "chat_id", "type", "timestamp", "read_receipt", "sender", "sender_raw", "text",
       "rendered_text", "rendered_formatted_text", "text_render_mode", "formatted_text",
       "image_source", "caption", "formatted_caption", "duration", "sticker_source", "media_path",
       "thumbnail_path", "mimetype", "file_name", "send_status", "temp_id", "reply_to_id",
       "reply_to_sender_id", "reply_to_sender_raw", "reply_to_text", "formatted_reply_to_text",
       "button_text", "button_url", "link_title", "link_description", "link_url", "sender_name",
       "sender_photo", "reply_to_sender"})
  @@ Bool({"is_outgoing", "edited", "has_reactions", "reply_to_from_me"}) @@ Int({"timestamp_unix"})
  @@ Strs({"mentioned_jids", "reply_to_mentioned_jids"}) @@ Of({"mention_spans"})

ReactionTypes == Str({"jid", "name", "photo", "emoji"}) @@ Bool({"is_self"})

ItemContracts ==
  LET keys(class) == DOMAIN Classes[class] IN
  [ChatListItem |-> Checked(keys("ChatListItem"), BaseChatTypes),
   ChatListEntry |-> Checked(keys("ChatListEntry"),
                             BaseChatTypes @@ Str({"draft"}) @@ Bool({"has_draft"})),
   MentionSpan |-> Exactly(Str({"jid", "label"}) @@ Int({"start", "length"})),
   UiMessage |-> Checked(keys("UiMessage"), UiMessageTypes),
   ContactItem |-> Checked(keys("ContactItem"), Str(keys("ContactItem"))),
   MessageReactionItem |-> Checked(keys("MessageReactionItem"), ReactionTypes),
   MessageReactionUpdate |->
     Checked(keys("MessageReactionUpdate"),
             ReactionTypes @@ Str({"chat_id", "message_id"}) @@ Bool({"removed"})),
   MentionCandidate |-> Exactly(Str({"jid", "label", "photo"}) @@ Bool({"is_admin", "is_super_admin"})),
   ChatInfoMember |-> Exactly(Str({"jid", "name", "photo"})),
   SenderPhoto |-> Exactly(Str({"jid", "photo"})), Presence |-> Exactly(Str({"jid", "status"})),
   ChatPresence |-> Exactly(Str({"chat", "sender", "state", "media"}) @@ Bool({"is_group"})),
   ChatDraft |-> Exactly(Str({"id", "draft"}) @@ Bool({"has_draft"}))]

SuccessTypes == Bool({"success"}) @@ Str({"message"})

ChatInfoContract(success) ==
  IF ~success THEN Checked({"success"}, Bool({}))
  ELSE Exactly(Bool({"success", "is_group", "muted"}) @@ Int({"unread_count", "member_count"})
               @@ Str({"id", "name", "photo", "description", "first_unread_message_id"})
               @@ Of({"members"}))

(* What each validator asks of an answer that says success, or not.        *)
ReplyContracts(success) ==
  [SuccessResponse |-> Exactly(SuccessTypes),
   ChatListResponse |-> Exactly(SuccessTypes @@ Of({"chats"})),
   MessagesResponse |-> Exactly(SuccessTypes @@ Str({"next_cursor"}) @@ Bool({"has_more"})
                                @@ Of({"messages"})),
   ContactListResponse |-> Exactly(SuccessTypes @@ Of({"contacts"})),
   MessageReactionsResponse |-> Exactly(SuccessTypes @@ Of({"reactions"})),
   ChatInfoResponse |-> ChatInfoContract(success),
   StartChatByPhoneResponse |->
     Exactly(SuccessTypes @@ [chat |-> IF success THEN "chat" ELSE "null"]),
   ChatDraftResponse |-> Exactly(Bool({"success"}) @@ Str({"text"}) @@ Of({"mention_spans"})),
   GroupMentionCandidatesResponse |-> Exactly(SuccessTypes @@ Of({"candidates"})),
   SessionStatusResponse |-> Exactly(Bool({"logged_in"}) @@ Str({"qr_image_path"})),
   DaemonStatusResponse |-> Exactly(Bool({"installed", "active"})),
   EnsureDaemonVersionResponse |-> Exactly(Bool({"restarted"})),
   ClearDataResponse |-> Exactly(Bool({"success"})),
   PairPhoneResponse |-> Exactly(SuccessTypes @@ Str({"code"})),
   SettingsResponse |-> Exactly(Bool({"success", "notifications_suppressed", "stop_daemon_on_exit",
                                      "error_reporting"}) @@ Str({"release_version", "build_version"})),
   PhoneNumberResponse |-> Exactly(Bool({"success"}) @@ Str({"phone_number"})),
   DownloadMediaResponse |-> Exactly(SuccessTypes @@ Str({"media_path"})),
   CachedStickersResponse |-> Exactly(Bool({"success"}) @@ Strs({"stickers"}))]

EventContracts ==
  [chat_draft_update |-> "ChatDraft", chat_list_update |-> "ChatListItem",
   chat_presence |-> "ChatPresence", message_reaction_update |-> "MessageReactionUpdate",
   message_upsert |-> "UiMessage", presence_update |-> "Presence",
   sender_photo_update |-> "SenderPhoto"]

Satisfies(object, contract) ==
  /\ DOMAIN object = contract.keys
  /\ \A f \in DOMAIN contract.types : object[f] = contract.types[f]

(* The objects within an answer, and within those.                         *)
Within(object) ==
  LET inner(o) == {Inner[f] : f \in {g \in DOMAIN o : o[g] = g /\ g \in DOMAIN Inner}} IN
  inner(object) \cup UNION {inner(Classes[class]) : class \in inner(object)}

ItemFits(class) ==
  /\ Satisfies(AsDict(Classes[class]), ItemContracts[class])
  /\ \A c \in Within(Classes[class]) : Satisfies(AsDict(Classes[c]), ItemContracts[c])

(* validate_qml_response: given the class a call answers and the one its   *)
(* contract names.                                                         *)
ReplyFits(class, contract, success) ==
  LET object == Replies(success)[class] IN
  /\ Satisfies(AsDict(object), ReplyContracts(success)[contract])
  /\ \A c \in Within(object) : ItemFits(c)

(* validate_qml_event: given the class of the objects that are sent.       *)
EventFits(event, class) == EventContracts[event] = class /\ ItemFits(class)
=============================================================================
