---------------------------- MODULE TargetParams ----------------------------
(***************************************************************************)
(* What each notification type's builder accepts.  A params map is a       *)
(* function from the names of the non-empty parameters to "good" or "bad": *)
(* a secret file that cannot be read (or, where one is required, is        *)
(* empty), a number that does not parse.                                   *)
(***************************************************************************)

\* Every name in K is there.
Given(p, K) == K \subseteq DOMAIN p

\* No parameter in K that is there is bad.
Sound(p, K) == \A k \in K \intersect DOMAIN p : p[k] = "good"

Secret(p, K) == Given(p, K) /\ Sound(p, K)

ntfy(p) == Given(p, {"topic"}) /\ Sound(p, {"username_file", "password_file"})

webhook(p) == Given(p, {"url"})

discord(p) == Secret(p, {"webhook_url_file"}) /\ Sound(p, {"color"})

gotify(p) == Given(p, {"server_url"}) /\ Secret(p, {"token_file"})

slack(p) == Secret(p, {"token_file"}) /\ Given(p, {"channel"})

telegram(p) == Secret(p, {"token_file", "chat_id"})

msteams(p) == Given(p, {"webhook"})

pushover(p) == Secret(p, {"app_token_file"}) /\ Given(p, {"user"})

matrix(p) == Given(p, {"user_id", "room_id", "home_server"}) /\ Secret(p, {"access_token_file"})

email(p) ==
  Given(p, {"smtp_host", "from", "to"}) /\ Sound(p, {"smtp_port", "username_file", "password_file"})

amazonsns(p) == Secret(p, {"access_key_id_file", "secret_key_file"}) /\ Given(p, {"region", "topic"})

pagerduty(p) == Secret(p, {"token_file"}) /\ Given(p, {"from_address", "service"})

rocketchat(p) == Given(p, {"server_url", "user_id", "channel"}) /\ Secret(p, {"token_file"})

\* A token or a login, not both.
mattermost(p) ==
  /\ Given(p, {"url", "channel"})
  /\ \/ Secret(p, {"token_file"}) /\ {"login_id_file", "password_file"} \intersect DOMAIN p = {}
     \/ Secret(p, {"login_id_file", "password_file"}) /\ "token_file" \notin DOMAIN p

\* The constructors of telegram, and of mattermost with a login, call the service.
CallsService(type, p) ==
  type = "telegram" \/ (type = "mattermost" /\ "login_id_file" \in DOMAIN p)

\* notify.Build: the registered builder accepts the parameters.
Builds(type, p) ==
  \/ type = "ntfy" /\ ntfy(p)
  \/ type = "webhook" /\ webhook(p)
  \/ type = "discord" /\ discord(p)
  \/ type = "gotify" /\ gotify(p)
  \/ type = "slack" /\ slack(p)
  \/ type = "telegram" /\ telegram(p)
  \/ type = "msteams" /\ msteams(p)
  \/ type = "pushover" /\ pushover(p)
  \/ type = "matrix" /\ matrix(p)
  \/ type = "email" /\ email(p)
  \/ type = "amazonsns" /\ amazonsns(p)
  \/ type = "pagerduty" /\ pagerduty(p)
  \/ type = "rocketchat" /\ rocketchat(p)
  \/ type = "mattermost" /\ mattermost(p)
=============================================================================
