----------------------------- MODULE MCRecords -----------------------------
(* Bounds for Records: the operations that touch the same tables run         *)
(* together, three requests at a time.                                       *)
EXTENDS Records, TLC

MCMixes ==
  {{"create_investigation", "add_timeline_entry", "assign_investigation",
    "close_investigation"},
   {"create_investigation", "list_investigations", "get_investigation", "create_user",
    "assign_investigation", "local_create", "local_investigations", "local_policies"},
   {"create_alert", "update_alert", "list_alerts", "get_alert_stats", "gdpr_export",
    "local_ingest", "ack_alert", "local_alerts", "local_metrics"},
   {"register_device", "device_heartbeat", "get_device", "list_devices", "operator",
    "get_security_posture", "local_devices", "local_get_device"},
   {"ingest_telemetry", "register_device", "update_alert", "prometheus_metrics"},
   {"create_policy", "update_policy", "delete_policy", "get_policy",
    "list_policies"},
   {"create_remediation", "rollback_action", "operator"}}

MCHosts ==
  {[os |-> "linux", arch |-> "armv7l", ram |-> 512, storage |-> 2],
   [os |-> "macos", arch |-> "arm64", ram |-> 4095, storage |-> 5]}

Symmetry == Permutations(Requests)
=============================================================================
