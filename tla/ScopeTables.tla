----------------------------- MODULE ScopeTables -----------------------------
(***************************************************************************)
(* The tables of names that decide what is collected: the types of the     *)
(* mapper, of the scope checker, of the scope validator that the executor  *)
(* asks, and of the configuration validator, and the names under which     *)
(* collectors are registered.  They are written out separately in the      *)
(* code, so they can drift apart.                                          *)
(***************************************************************************)

(* internal/datascope/mapper.go *)
CPUTypes ==
    {"cpu_throttling", "cpu_temperature", "cpu_frequency", "cpu_cache_misses",
     "cpu_context_switches"}

MemoryTypes ==
    {"memory_fragmentation", "swap_usage", "oom_events", "memory_page_faults",
     "memory_compaction"}

DiskTypes ==
    {"disk_smart", "disk_errors", "disk_performance", "disk_temperature",
     "disk_reallocated_sectors"}

NetworkTypes ==
    {"network_interface_errors", "tcp_retransmit_rate", "network_buffer_usage",
     "network_dropped_packets", "network_collisions"}

KubernetesTypes ==
    {"kubelet_process", "kubelet_logs", "kubelet_cert", "containerd_status",
     "containerd_memory", "containerd_logs", "cni_plugin_status",
     "kube_proxy_iptables"}

SystemTypes ==
    {"system_load", "file_descriptors", "kernel_logs", "ntp_sync", "process_restarts"}

SecurityTypes ==
    {"cert_validity", "file_permissions", "audit_logs", "suid_files"}

NodeLocalTypes ==
    CPUTypes \cup MemoryTypes \cup DiskTypes \cup NetworkTypes \cup KubernetesTypes
        \cup SystemTypes \cup SecurityTypes

ClusterLevelTypes ==
    {"node_cpu_usage", "node_memory_usage", "node_disk_io", "node_network_bytes",
     "pod_cpu_usage", "pod_memory_usage", "container_cpu", "container_memory"}

SupplementTypes ==
    {"process_cpu_usage", "process_memory_usage", "process_file_descriptors",
     "kernel_dmesg", "kernel_oom_events", "kernel_panic_logs",
     "kubelet_config_status", "containerd_config_status", "cni_config_status",
     "kubelet_cert_validity", "containerd_cert_validity", "etcd_cert_validity"}

(* internal/datascope/checker.go: the mapper's types and some more *)
CheckerLocal ==
    NodeLocalTypes \cup {"cpu_throttle_events", "cpu_temperature_celsius",
     "cpu_frequency_mhz", "memory_fragmentation_ratio", "swap_usage_percent",
     "oom_killer_events", "disk_io_latency_ms", "disk_smart_status",
     "disk_error_count", "kubelet_process_status", "kubelet_cert_expiry_days",
     "containerd_memory_mb", "system_load_average", "file_descriptors_usage",
     "kernel_log_errors", "ntp_sync_status"}

CheckerSupplement ==
    {"process_cpu_usage", "process_memory_usage", "process_file_descriptors",
     "kernel_dmesg", "kernel_oom_events", "kernel_panic_logs",
     "kubelet_config_status", "containerd_config_status", "cni_config_status",
     "kubelet_cert_validity", "containerd_cert_validity", "etcd_cert_validity"}

CheckerSkip ==
    {"node_cpu_usage", "node_memory_usage", "node_disk_io", "node_network_bytes",
     "pod_cpu_usage", "pod_memory_usage", "container_cpu", "container_memory"}

(* internal/datascope/validator.go *)
ValidatorLocal ==
    {"cpu_throttling", "cpu_temperature", "cpu_frequency", "memory_fragmentation",
     "swap_usage", "oom_events", "disk_smart", "disk_errors", "disk_performance",
     "network_interface_errors", "tcp_retransmission", "network_buffer",
     "kubelet_process", "kubelet_logs", "kubelet_config", "kubelet_certificates",
     "containerd_process", "containerd_memory", "containerd_logs", "cni_process",
     "cni_config", "kube_proxy_process", "kube_proxy_logs", "system_load",
     "file_descriptors", "kernel_logs", "ntp_sync"}

ValidatorSupplement ==
    {"process_resource_usage", "kernel_events", "config_file_status",
     "certificate_validity"}

(* internal/config/validator.go *)
ValidCollectors ==
    {"cpu_throttling", "cpu_temperature", "cpu_frequency", "cpu_cache_misses",
     "cpu_context_switches", "memory_fragmentation", "swap_usage", "oom_events",
     "memory_page_faults", "memory_compaction", "disk_smart", "disk_errors",
     "disk_performance", "disk_temperature", "disk_reallocated_sectors",
     "network_interface_errors", "tcp_retransmit_rate", "network_buffer_usage",
     "network_dropped_packets", "network_collisions", "kubelet_process",
     "kubelet_logs", "kubelet_cert", "containerd_status", "containerd_memory",
     "containerd_logs", "cni_plugin_status", "kube_proxy_iptables", "system_load",
     "file_descriptors", "kernel_logs", "ntp_sync", "process_restarts",
     "cert_validity", "file_permissions", "audit_logs", "suid_files",
     "process_cpu_usage", "process_memory_usage", "process_file_descriptors",
     "kernel_dmesg", "kernel_oom_events", "kernel_panic_logs",
     "kubelet_config_status", "containerd_config_status", "cni_config_status",
     "kubelet_cert_validity", "containerd_cert_validity", "etcd_cert_validity"}

(* internal/collector/register.go, with the Name of each collector *)
RegisteredLocal ==
    {"cpu", "memory", "disk", "network", "kubelet", "containerd", "cni", "kube-proxy",
     "system-load", "file-descriptor", "kernel-log", "ntp-sync"}

RegisteredSupplement ==
    {"process-resource", "kernel-events", "config-files", "certificates"}

Registered == RegisteredLocal \cup RegisteredSupplement
==============================================================================
