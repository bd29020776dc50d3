------------------------------ MODULE MCStartup ------------------------------
EXTENDS Startup, TLC

Legacy(type, flat) == [type |-> type, flat |-> flat, nested |-> FALSE, params |-> <<>>]
Nested(type, params) == [type |-> type, flat |-> <<>>, nested |-> TRUE, params |-> params]
File(set, targets) == [set |-> set, targets |-> targets, state |-> "file"]

OldWebhook == Legacy("webhook", "url" :> "good" @@ "title" :> "good")
BareDiscord == Legacy("discord", "webhook_url_file" :> "good")

\* Both formats with everything sound, one target calling its service at the
\* start; a bare target beside sound ones under custom settings, with and
\* without a choice of endpoint; a setting that is refused beside a bare target;
\* a CA bundle and a template that end the process; values that do not parse; a
\* file that is not YAML.
Files ==
  {File("runtime.type" :> "podman" @@ "metrics.listen" :> "custom",
        <<OldWebhook, Nested("gotify", "server_url" :> "good" @@ "token_file" :> "good"),
          Nested("telegram", "token_file" :> "good" @@ "chat_id" :> "good"), Legacy("stdout", <<>>)>>),
   File("runtime.endpoint" :> "tcp" @@ "log.level" :> "custom", <<Legacy("stdout", <<>>)>>),
   File("runtime.type" :> "podman" @@ "check_interval" :> "custom" @@ "metrics.listen" :> "custom",
        <<BareDiscord, OldWebhook, Nested("ntfy", "topic" :> "good" @@ "password_file" :> "bad"),
          Nested("discord", "webhook_url_file" :> "good" @@ "color" :> "good")>>),
   File("check_interval" :> "invalid", <<BareDiscord, Legacy("ntfy", "topic" :> "good")>>),
   File("registries.ca_file" :> "invalid" @@ "runtime.endpoint" :> "tcp", <<BareDiscord>>),
   File(<<>>, <<Nested("discord", "webhook_url_file" :> "good" @@ "title" :> "bad")>>),
   File("enrichment.timeout" :> "unparsable", <<>>),
   [set |-> <<>>, targets |-> <<>>, state |-> "garbled"]}

Environments ==
  {<<>>, "runtime.type" :> "docker", "runtime.endpoint" :> "tcp" @@ "log.level" :> "other",
   "check_interval" :> "unparsable"}
=============================================================================
