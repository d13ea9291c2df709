----------------------------- MODULE OrgHandlers -----------------------------
(***************************************************************************)
(* The handlers of the resources of the organisation: hooks, log streams,  *)
(* trusted origins, brands, domains, mail, limits and settings.  Each      *)
(* definition is one function of the resource's file: X the schema,        *)
(* XRequest what is sent, XStatus the calls for its status, XShown what an *)
(* answer puts into the state, and the handlers.  What is no more than one *)
(* or two calls is stated in the definition that uses it.                  *)
(***************************************************************************)
EXTENDS HandlerSteps

\* okta_event_hook.  The status is compared with the one that was answered.
EventHookStatus == When({"status_differs"}, SetStatus)
EventHookRead == Forgets
EventHook == Resource({"body", "status"},
  Post({"body", "status?"}) \o SetId \o EventHookStatus \o ReadBack, EventHookRead,
  Put({"body", "status?"}) \o EventHookStatus \o ReadBack, Deactivate \o Remove)

\* okta_inline_hook.
InlineHookStatus == When({"status_differs"}, SetStatus)
InlineHookRead == Forgets
InlineHook == Resource({"frozen", "body", "status"},
  Post({"body", "status?"}) \o SetId \o InlineHookStatus \o ReadBack, InlineHookRead,
  Put({"body", "status?"}) \o InlineHookStatus \o ReadBack,
  Quiet(Deactivate) \o Quiet(Remove))

\* okta_log_stream.  The state is written at the end of Create.
LogStreamCreateBody == {"body"}
LogStreamReplaceBody == {"body"}
LogStreamCreate == Post(LogStreamCreateBody) \o When({"status_differs"}, SetStatus) \o SetId
LogStreamRead == FailsIfMissing
LogStreamUpdate == Put(LogStreamReplaceBody) \o When({"status_differs"}, SetStatus)
LogStreamDelete == Deactivate \o Remove
LogStream == Framework(Resource({"frozen", "body", "status"},
  LogStreamCreate, LogStreamRead, LogStreamUpdate, LogStreamDelete))

\* okta_trusted_origin.  One that is not active cannot be created.
TrustedOriginUpdate == When({"status_changed"}, SetStatus) \o Put({"body", "status?"})
TrustedOrigin == Resource({"body", "status"},
  When({"inactive"}, Refuse) \o Post({"body", "status?"}) \o SetId, Forgets,
  TrustedOriginUpdate, Remove)

\* okta_security_events_provider.
SecurityEventsProviderCreate == Post({"body"}) \o SetStatus \o SetId
SecurityEventsProviderRead == FailsIfMissing
SecurityEventsProviderUpdate == Put({"body"}) \o SetStatus
SecurityEventsProvider == Framework(Resource({"body", "status"},
  SecurityEventsProviderCreate, SecurityEventsProviderRead,
  SecurityEventsProviderUpdate, Remove))

\* okta_hook_key.
HookKey == Framework(Resource({"body"},
  Post({"body"}) \o SetId, FailsIfMissing, Put({"body"}), Remove))

-----------------------------------------------------------------------------
\* okta_brand.  The creation takes the name only, the rest follows.
BrandUpdateRequest == {"body"}
BrandCreate == Post({}) \o Put(BrandUpdateRequest) \o ReadBack \o SetId
BrandRead == FailsIfMissing
BrandUpdate == Find \o Put(BrandUpdateRequest) \o ReadBack
Brand == Framework(Resource({"body"}, BrandCreate, BrandRead, BrandUpdate, Remove))

\* okta_domain.  The brand is given afterwards, and the one made meanwhile deleted.
DomainCreate == Post({}) \o SetId \o Put({"body"}) \o Check \o ReadBack
DomainRead == Forgets
Domain == Resource({"frozen", "body"},
  DomainCreate, DomainRead, Check \o Put({"body"}) \o ReadBack, Remove)

\* okta_domain_certificate.  Neither read nor removed.
DomainCertificate == Singleton(Resource({"frozen", "body"},
  Post({"body"}) \o SetId, Showing({}, Except({"frozen"}, Forgets)), Put({"body"}),
  << >>))

\* okta_email_customization.
EmailCustomizationCreate == Post({"body"}) \o SetId
EmailCustomizationRead == Forgets
EmailCustomizationUpdate == Put({"body"}) \o SetId
EmailCustomizationDelete == Check \o Remove
EmailCustomization == Resource({"home", "body"}, EmailCustomizationCreate,
  EmailCustomizationRead, EmailCustomizationUpdate, EmailCustomizationDelete)

\* okta_email_domain.  An update sends the names but not the domain and the brand.
EmailDomainRead == Forgets
EmailDomain == NeverReplaced(Resource({"frozen", "body"},
  Post({"body"}) \o SetId \o ReadBack, EmailDomainRead, Put({"body"}) \o ReadBack,
  Find \o Quiet(Remove)))

\* okta_email_smtp_server.
EmailSMTPRead == Forgets
EmailSMTP == Resource({"body"},
  Post({"body"}) \o SetId \o ReadBack, EmailSMTPRead, Put({"body"}) \o ReadBack, Remove)

\* okta_email_template_settings.
EmailTemplateSettingsCreate == Put({"body"}) \o SetId
EmailTemplateSettingsRead == FailsIfMissing
EmailTemplateSettingsUpdate == Put({"body"})
EmailTemplateSettings == Framework(Singleton(Resource({"body"},
  EmailTemplateSettingsCreate, EmailTemplateSettingsRead, EmailTemplateSettingsUpdate, << >>)))

\* okta_theme.  A creation takes over what is there, whatever was configured.
ThemeCreate == Check \o SetId \o ReadBack
ThemeRead == FailsIfMissing
ThemeUpdate == Check \o Put({"body"})
Theme == Singleton(Resource({"body"}, ThemeCreate, ThemeRead, ThemeUpdate, << >>))

\* okta_template_sms.
TemplateSms == Resource({"body"},
  Post({"body"}) \o SetId \o ReadBack, Forgets, Put({"body"}) \o ReadBack, Remove)

\* okta_customized_signin_page, under the lock of all of them, and okta_preview_signin_page.
\* A replacement makes the page of a brand that has none.
SignInPageRequest == {"body"}
CustomizedSignInPageCreate == Post(SignInPageRequest) \o SetId
CustomizedSignInPageRead == FailsIfMissing
CustomizedSignInPageUpdate == Post(SignInPageRequest)
CustomizedSignInPage == Framework(Keyed(Resource({"home", "body"},
  CustomizedSignInPageCreate, CustomizedSignInPageRead, CustomizedSignInPageUpdate,
  Remove)))
PreviewSignInPageCreate == Post(SignInPageRequest) \o SetId
PreviewSignInPageRead == FailsIfMissing
PreviewSignInPageUpdate == Post(SignInPageRequest)
PreviewSignInPage == Framework(Keyed(Resource({"home", "body"},
  PreviewSignInPageCreate, PreviewSignInPageRead, PreviewSignInPageUpdate, Remove)))

-----------------------------------------------------------------------------
\* okta_captcha, and okta_captcha_org_wide_settings.
Captcha == Resource({"frozen", "body"},
  Post({"body"}) \o SetId, Forgets, Put({"body"}), Remove)

CaptchaOrgWideSettings == Singleton(Resource({"body"},
  Put({"body"}) \o SetId, Forgets, Put({"body"}), Reset))

\* okta_org_configuration.  The settings, the logo, the mails and the contacts are put
\* one after the other, and in force with the last.
OrgSettingsRequest == {}
CommunicationSettings == Check \o Put({})
ContactUsers == Check \o Put({}) \o Check \o Put({"body"})
OrgSettingsCreate ==
  Put(OrgSettingsRequest) \o SetId \o Check \o CommunicationSettings \o ContactUsers \o ReadBack
OrgSettingsRead == FailsIfMissing
OrgSettingsUpdate ==
  Check \o Put(OrgSettingsRequest) \o Check \o CommunicationSettings \o ContactUsers \o ReadBack
OrgConfiguration == Singleton(Resource({"body"},
  OrgSettingsCreate, OrgSettingsRead, OrgSettingsUpdate, << >>))

\* okta_trusted_server.  The servers that an authorization server trusts: added
\* at once, removed one by one.
TrustedServerCreate == DiffState \o AddAll \o SetId
TrustedServerRead == FailsIfMissing
TrustedServerUpdate == DiffState \o AddAll \o DropParts
TrustedServerDelete == DiffState \o DropParts
TrustedServer == Framework(Singleton(Resource({"parts"},
  TrustedServerCreate, TrustedServerRead, TrustedServerUpdate, TrustedServerDelete)))

\* okta_rate_limiting, okta_rate_limit_admin_notification_settings and
\* okta_rate_limit_warning_threshold_percentage.  There is no deletion.
PerClientRateLimitSettings == {"body"}
RateLimitCreate == Put(PerClientRateLimitSettings) \o SetId
RateLimitRead == FailsIfMissing
RateLimitUpdate == Put(PerClientRateLimitSettings)
RateLimit == Framework(Singleton(Resource({"body"},
  RateLimitCreate, RateLimitRead, RateLimitUpdate, << >>)))

NotificationSettingsCreate == Put({"body"}) \o SetId
NotificationSettingsRead == FailsIfMissing
NotificationSettingsUpdate == Put({"body"})
NotificationSettings == Framework(Singleton(Resource({"body"},
  NotificationSettingsCreate, NotificationSettingsRead, NotificationSettingsUpdate,
  << >>)))

WarningThresholdCreate == Put({"body"}) \o SetId
WarningThresholdRead == FailsIfMissing
WarningThresholdUpdate == Put({"body"})
WarningThreshold == Framework(Singleton(Resource({"body"},
  WarningThresholdCreate, WarningThresholdRead, WarningThresholdUpdate, << >>)))

\* okta_principal_rate_limits.  The entity is looked up, and reset in the end.
PrincipalRateLimitsCreate == Check \o Put({"body"}) \o SetId
PrincipalRateLimitsRead == FailsIfMissing
PrincipalRateLimitsUpdate == Put({"body"})
PrincipalRateLimits == Framework(Singleton(Resource({"body"},
  PrincipalRateLimitsCreate, PrincipalRateLimitsRead, PrincipalRateLimitsUpdate,
  Reset)))

\* okta_security_notification_emails.
SecurityNotificationEmails == Singleton(Resource({"body"},
  Put({"body"}) \o SetId, FailsIfMissing, Put({"body"}), Reset))

\* okta_threat_insight_settings.
ThreatInsightSettings == Singleton(Resource({"body"},
  Put({"body"}) \o SetId, FailsIfMissing, Put({"body"}), Reset))

\* okta_feature.  The life cycle is not read.
FeatureShown == {}
FeatureCreate == Check \o SetStatus \o SetId
FeatureUpdate == Check \o SetStatus
Feature == Framework(Singleton(Resource({"status"},
  FeatureCreate, Showing(FeatureShown, FailsIfMissing), FeatureUpdate, Deactivate)))

\* okta_api_token, which can only be imported.
APITokenUpdateRequest == {"body"}
APITokenUpdate == Put(APITokenUpdateRequest)
APIToken == Framework(Imported(Resource({"body"},
  Refuse, FailsIfMissing, APITokenUpdate, Remove)))

\* okta_api_service_integration.  A change is refused, and no replacement is planned.
APIServiceIntegrationCreate == Post({"body"}) \o SetId
APIServiceIntegration == Framework(Resource({"body"},
  APIServiceIntegrationCreate, FailsIfMissing, Refuse, Remove))

\* okta_ui_schema.
UISchemaUpdateRequest == {"body"}
UISchemaCreate == Post({"body"}) \o SetId
UISchemaRead == FailsIfMissing
UISchemaUpdate == Put(UISchemaUpdateRequest)
UISchema == Framework(Resource({"body"},
  UISchemaCreate, UISchemaRead, UISchemaUpdate, Remove))

\* okta_role_subscription.
RoleSubscriptionCreate == Check \o SetStatus \o SetId \o ReadBack
RoleSubscription == Singleton(Resource({"status"},
  RoleSubscriptionCreate, Forgets, When({"status_changed"}, SetStatus), << >>))

\* okta_agent_pool_update.
AgentPoolUpdateCreate == Post({"body"}) \o SetId
AgentPoolUpdateRead == FailsIfMissing
AgentPoolUpdateUpdate == Put({"body"})
AgentPoolUpdate == Framework(Resource({"frozen", "body"},
  AgentPoolUpdateCreate, AgentPoolUpdateRead, AgentPoolUpdateUpdate, Remove))
=============================================================================
