------------------------------- MODULE Packages -------------------------------
(***************************************************************************)
(* The packages of the repository as their plugins describe them: what each  *)
(* requires, the settings and slots it contributes to, the extra settings it *)
(* has a value for, and what its application shares in ready().  Packages of  *)
(* INSTALLED_APPS without a plugin are left out, baseapp_core excepted.       *)
(***************************************************************************)
EXTENDS Sequences, TLC
LOCAL INSTANCE SequencesExt

\* Entries of AUTHENTICATION_BACKENDS in the package's own slot, and entries without a slot.
Backend(p) == <<"AUTHENTICATION_BACKENDS", p>>
Queries == <<"graphql_queries", "">>
Mutations == <<"graphql_mutations", "">>
Subscriptions == <<"graphql_subscriptions", "">>
Urls == <<"v1_urlpatterns", "">>

plugin(requires, fills, extra, shares) ==
  [requires |-> requires, fills |-> fills, extra |-> extra, shares |-> shares]

baseapp_auth == plugin({"baseapp_core"}, {Urls}, {}, {})
baseapp_api_key ==
  plugin({}, {}, {"BA_API_KEY_REQUEST_HEADER", "BA_API_KEY_ENCRYPTION_KEY"}, {})
baseapp_profiles ==
  plugin({}, {<<"MIDDLEWARE", "baseapp_profiles">>, <<"GRAPHENE__MIDDLEWARE", "baseapp_profiles">>,
              Backend("baseapp_profiles"), Queries, Mutations},
         {}, {"profiles.graphql", "profiles.jwt_profile", "ProfileInterface", "ProfilesInterface"})
activity_log ==
  plugin({}, {Backend("baseapp.activity_log"), Queries}, {},
         {"activity_log", "NodeActivityLogInterface", "UserActivityLogInterface",
          "ProfileActivityLogInterface"})
baseapp_pages ==
  plugin({}, {Backend("baseapp_pages"), Queries, Mutations}, {},
         {"pages.url_path", "PageInterface"})
baseapp_organizations ==
  plugin({"baseapp_profiles"}, {Backend("baseapp_organizations"), Queries, Mutations}, {},
         {"organizations.account"})
baseapp_payments == plugin({}, {Urls}, {}, {})
baseapp_e2e == plugin({}, {}, {"E2E"}, {})
baseapp_notifications ==
  plugin({}, {Mutations, Subscriptions, Urls}, {"DJANGO_NOTIFICATIONS_CONFIG"},
         {"notifications", "NotificationsInterface"})
baseapp_url_shortening == plugin({}, {Urls}, {}, {})
baseapp_comments ==
  plugin({}, {Backend("baseapp_comments"), Queries, Mutations, Subscriptions},
         {"BASEAPP_COMMENTS_CAN_ANONYMOUS_VIEW_COMMENTS",
          "BASEAPP_COMMENTS_ENABLE_GRAPHQL_SUBSCRIPTIONS", "BASEAPP_COMMENTS_ENABLE_NOTIFICATIONS",
          "BASEAPP_COMMENTS_MAX_PINS_PER_THREAD", "BASEAPP_COMMENTS_NOTIFICATION_CREATED_EMAIL",
          "BASEAPP_COMMENTS_NOTIFICATION_REPLY_EMAIL"},
         {"commentable_metadata", "CommentsInterface"})
baseapp_mentions ==
  plugin({"baseapp_profiles"}, {}, {}, {"mentions", "mentionable_metadata", "MentionsInterface"})
baseapp_follows ==
  plugin({"baseapp_profiles"}, {Backend("baseapp_follows"), Mutations}, {},
         {"followable_metadata", "FollowsInterface"})
baseapp_reports ==
  plugin({}, {Backend("baseapp_reports"), Queries, Mutations}, {},
         {"reportable_metadata", "ReportsInterface"})
baseapp_ratings ==
  plugin({}, {Backend("baseapp_ratings"), Queries, Mutations},
         {"BASEAPP_RATINGS_CAN_ANONYMOUS_VIEW_RATINGS", "BASEAPP_MAX_RATING_VALUE"},
         {"ratable_metadata", "RatingsInterface"})
baseapp_reactions ==
  plugin({}, {Backend("baseapp_reactions"), Queries, Mutations},
         {"BASEAPP_REACTIONS_CAN_ANONYMOUS_VIEW_REACTIONS",
          "BASEAPP_REACTIONS_ENABLE_NOTIFICATIONS", "BASEAPP_REACTIONS_NOTIFICATION_CREATED_EMAIL"},
         {"reactable_metadata", "ReactionsInterface"})
baseapp_blocks ==
  plugin({"baseapp_profiles"}, {Backend("baseapp_blocks"), Mutations}, {},
         {"blocks.lookup", "blockable_metadata", "BlocksInterface"})
content_feed == plugin({}, {Queries, Mutations}, {}, {})
baseapp_chats ==
  plugin({"baseapp_profiles"}, {Backend("baseapp_chats"), Queries, Mutations, Subscriptions}, {},
         {"chats_participation", "ChatRoomsInterface"})
plugin_test_app ==
  plugin({"baseapp_core"},
         {<<"MIDDLEWARE", "test_plugin">>, <<"GRAPHENE__MIDDLEWARE", "test_plugin">>,
          Backend("test_plugin"), Queries, Mutations},
         {"TEST_PLUGIN_SETTING", "TEST_PLUGIN_ENABLED"}, {})

\* pdf, message templates, Cloudflare stream and referrals: a name and nothing else.
bare == plugin({}, {}, {}, {})

\* The entry points of namespace baseapp.plugins, and the plugin that the project itself tests.
Shipped ==
  <<<<"baseapp_auth", baseapp_auth>>, <<"baseapp_api_key", baseapp_api_key>>,
    <<"baseapp_profiles", baseapp_profiles>>, <<"baseapp.activity_log", activity_log>>,
    <<"baseapp_pages", baseapp_pages>>, <<"baseapp_organizations", baseapp_organizations>>,
    <<"baseapp_payments", baseapp_payments>>, <<"baseapp_referrals", bare>>,
    <<"baseapp_pdf", bare>>, <<"baseapp_message_templates", bare>>,
    <<"baseapp_cloudflare_stream_field", bare>>, <<"baseapp_e2e", baseapp_e2e>>,
    <<"baseapp_notifications", baseapp_notifications>>,
    <<"baseapp_url_shortening", baseapp_url_shortening>>,
    <<"baseapp_comments", baseapp_comments>>, <<"baseapp_mentions", baseapp_mentions>>,
    <<"baseapp_follows", baseapp_follows>>, <<"baseapp_reports", baseapp_reports>>,
    <<"baseapp_ratings", baseapp_ratings>>, <<"baseapp_reactions", baseapp_reactions>>,
    <<"baseapp_blocks", baseapp_blocks>>, <<"baseapp.content_feed", content_feed>>,
    <<"baseapp_chats", baseapp_chats>>, <<"testproject.plugin_test_app", plugin_test_app>>>>

Extensions == [i \in DOMAIN Shipped |-> Shipped[i][1]]
described == [p \in Range(Extensions) |-> Shipped[CHOOSE i \in DOMAIN Shipped : Shipped[i][1] = p][2]]
             @@ ("baseapp_core" :> bare)
Package == DOMAIN described

\* INSTALLED_APPS of the project, as far as the packages go.
INSTALLED_APPS ==
  <<"baseapp_core", "baseapp_profiles", "baseapp_reactions", "baseapp_reports", "baseapp_pages",
    "baseapp_comments", "baseapp_mentions", "baseapp_auth", "baseapp_referrals", "baseapp_follows",
    "baseapp_blocks", "baseapp.activity_log", "baseapp_notifications", "baseapp_ratings",
    "baseapp_payments", "baseapp_message_templates", "baseapp_url_shortening",
    "baseapp_organizations", "baseapp_chats", "baseapp_e2e", "baseapp.content_feed", "baseapp_pdf",
    "baseapp_api_key", "testproject.plugin_test_app">>

\* AUTHENTICATION_BACKENDS of the project: the slots it asks the registry for.
AUTHENTICATION_BACKENDS ==
  {Backend(p) : p \in
     {"baseapp_pages", "baseapp_profiles", "baseapp_comments", "baseapp.activity_log",
      "baseapp_reactions", "baseapp_reports", "baseapp_ratings", "baseapp_follows",
      "baseapp_blocks", "baseapp_chats", "baseapp_organizations"}}

\* What else its settings, schema and URLs ask for.
MIDDLEWARE == {<<"MIDDLEWARE", "baseapp_profiles">>, <<"GRAPHENE__MIDDLEWARE", "baseapp_profiles">>}
Asked == AUTHENTICATION_BACKENDS \cup MIDDLEWARE \cup {Queries, Mutations, Subscriptions, Urls}

\* The extra settings that the project's settings module sets itself.
Own == {"BASEAPP_COMMENTS_ENABLE_NOTIFICATIONS", "BASEAPP_REACTIONS_ENABLE_NOTIFICATIONS", "E2E"}

\* The object types that capture shared interfaces, with the names they look up.
BasePageObjectType == <<"CommentsInterface">>
ContentPostObjectType == <<"MentionsInterface", "ReactionsInterface">>
AbstractUserObjectType ==
  <<"RatingsInterface", "UserActivityLogInterface", "NotificationsInterface", "ProfileInterface",
    "ProfilesInterface", "PageInterface">>
BaseProfileObjectType ==
  <<"ProfileActivityLogInterface", "PageInterface", "FollowsInterface", "ReportsInterface",
    "BlocksInterface", "ChatRoomsInterface">>
BaseCommentObjectType ==
  <<"ReactionsInterface", "MentionsInterface", "NodeActivityLogInterface">>
Lookups == ("page" :> BasePageObjectType) @@ ("post" :> ContentPostObjectType)
           @@ ("user" :> AbstractUserObjectType) @@ ("profile" :> BaseProfileObjectType)
           @@ ("comment" :> BaseCommentObjectType)
==============================================================================
