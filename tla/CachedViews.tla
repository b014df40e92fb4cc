---------------------------- MODULE CachedViews ----------------------------
(***************************************************************************)
(* The views that the services keep in the cache, with the rows each of    *)
(* them queries, the views it gets through their own cache and its time to *)
(* live in seconds; and the writes of the rows of those views, with what   *)
(* they do to the cache.  A row stands for all the rows of a table that a  *)
(* user, or the platform, is shown.                                        *)
(***************************************************************************)

Cached(rows, inner, ttl) == [rows |-> rows, inner |-> inner, ttl |-> ttl]
Flat(rows, ttl) == Cached(rows, {}, ttl)

-----------------------------------------------------------------------------
(* Services of the back-end applications                                   *)

Balance == Flat({"wallet"}, 60)
Config == Flat({"config"}, 3600)
RegistryStatus == Flat({"registry"}, 300)
Rate == Flat({"rate"}, 3600)
Providers == Flat({"provider"}, 60)

(* Services behind the screens                                             *)

UnreadCount == Flat({"notification"}, 30)
Marketplace == Flat({"skill"}, 60)
Profile == Flat({"user", "device", "permission", "group", "wallet", "skill", "install"}, 300)
WalletView == Cached({"wallet", "ledger", "payment", "reserve"}, {"balance"}, 60)

\* aggregate(total=...)["total__sum"] raises a KeyError in these two.
CreditsSummary == Flat({"wallet", "reserve", "ledger"}, 60)
Monitoring == Flat({"metric", "provider", "event", "user", "wallet"}, 30)
Raising == {"credits", "monitoring"}

(* The parts of a dashboard, each read by a thread of its own              *)

ProfilePart == {"user", "device", "group"}
WalletPart == {"wallet", "ledger", "payment"}
WalletPartInner == {"balance"}
CreditsPart == {"wallet", "reserve", "ledger"}
SkillsPart == {"skill", "install", "execution"}
NotificationsPart == {"notification"}
SystemPart == {"registry", "provider"}
DeveloperPart == {"skill", "execution", "review"}
AdminPart == {"user", "skill", "payment", "audit"}
OpsPart == {"metric", "event", "provider", "session", "execution"}
AuditorPart == {"audit", "payment", "wallet", "event"}
InvestorPart == {"wallet", "reserve", "user", "payment", "skill", "execution"}
Widgets == {"layout"}

CommonParts == ProfilePart \cup WalletPart \cup CreditsPart \cup SkillsPart
                 \cup NotificationsPart \cup SystemPart \cup Widgets

Special == [user_dashboard |-> {}, developer |-> DeveloperPart, admin |-> AdminPart, ops |-> OpsPart,
            auditor |-> AuditorPart, investor |-> InvestorPart]

Dashboard(type) == Cached(CommonParts \cup Special[type], WalletPartInner, 30)

ViewOf(view) ==
  CASE view = "balance" -> Balance
    [] view = "config_value" -> Config
    [] view = "status" -> RegistryStatus
    [] view = "exchange" -> Rate
    [] view = "providers" -> Providers
    [] view = "unread" -> UnreadCount
    [] view = "marketplace" -> Marketplace
    [] view = "profile" -> Profile
    [] view = "wallet_view" -> WalletView
    [] view = "credits" -> CreditsSummary
    [] view = "monitoring" -> Monitoring
    [] OTHER -> Dashboard(view)

-----------------------------------------------------------------------------
(* Writes                                                                  *)

Plain(row) == [row |-> row, keys |-> {}, reads |-> FALSE, before |-> FALSE,
               after |-> FALSE, sets |-> FALSE]
ThenDelete(row, keys) == [Plain(row) EXCEPT !.keys = keys, !.after = TRUE]

\* mint, burn and transfer delete the key inside their transaction.
MintCredits == [Plain("wallet") EXCEPT !.keys = {"balance"}, !.before = TRUE]

\* Freezing and the generic PATCH leave it to the signal, after the save.
SaveWallet == ThenDelete("wallet", {"balance"})

\* The signal fires inside update_or_create, the key is set after its commit.
SetConfig == [Plain("config") EXCEPT !.keys = {"config_value"}, !.before = TRUE, !.sets = TRUE]
SaveConfig == ThenDelete("config", {"config_value"})

RegisterEntity == [Plain("registry") EXCEPT !.keys = {"status"}, !.before = TRUE, !.sets = TRUE]
Unregister == ThenDelete("registry", {"status"})
\* What is set is the name and status of the object that was read.
Heartbeat == [Plain("registry") EXCEPT !.keys = {"status"}, !.reads = TRUE,
                                       !.after = TRUE, !.sets = TRUE]
\* queryset.update() sends no signal.
CleanupRegistry == Plain("registry")

UpdateRate == ThenDelete("rate", {"exchange"})
SaveProvider == ThenDelete("provider", {"providers"})

MarkAllRead == ThenDelete("notification", {"unread"})
MarkRead == Plain("notification")

UpdateProfile == ThenDelete("user", {"profile", "user_dashboard"})
RevokeDevice == ThenDelete("device", {"profile"})
\* The signal of User deletes other keys than the one of the profile.
SaveUser == Plain("user")
SaveLayout(type) == ThenDelete("layout", {type})
=============================================================================
