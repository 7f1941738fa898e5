-------------------------------- MODULE LLRPParams --------------------------------
(*****************************************************************************
The standard parameters of protocol/params.py: the type number and the fields of
every class, and the slots of the classes that contain parameters.
*****************************************************************************)

EXTENDS LLRPStructs

\* Every parameter class, in the order of the source.
DeviceParams ==
    [UTCTimestamp |-> Tlv(128, <<64>>), Uptime |-> Tlv(129, <<64>>),
     GeneralDeviceCapabilities |-> Tlv(137, <<16, 1, 1, -14, 32, 32, V8>>),
     ReceiveSensitivityTableEntry |-> Tlv(139, <<16, 16>>),
     PerAntennaReceiveSensitivityRange |-> Tlv(149, <<16, 16, 16>>),
     PerAntennaAirProtocol |-> Tlv(140, <<16, V8>>)]

CapabilityParams ==
    [GPIOCapabilities |-> Tlv(141, <<16, 16>>),
     LLRPCapabilities |-> Tlv(142, <<1, 1, 1, 1, 1, -3, 8, 16, 32, 32, 32, 32, 32>>),
     RegulatoryCapabilities |-> Tlv(143, <<16, 16>>), UHFBandCapabilities |-> Tlv(144, <<>>),
     TransmitPowerLevelTableEntry |-> Tlv(145, <<16, 16>>)]

FrequencyAndROSpecParams ==
    [FrequencyInformation |-> Tlv(146, <<1, -7>>), FrequencyHopTable |-> Tlv(147, <<8, -8, V32>>),
     FixedFrequencyTable |-> Tlv(148, <<V32>>), ROSpec |-> Tlv(177, <<32, 8, 8>>),
     ROBoundarySpec |-> Tlv(178, <<>>), ROSpecStartTrigger |-> Tlv(179, <<8>>),
     PeriodicTriggerValue |-> Tlv(180, <<32, 32>>)]

AISpecParams ==
    [GPITriggerValue |-> Tlv(181, <<16, 1, -7, 32>>), ROSpecStopTrigger |-> Tlv(182, <<8, 32>>),
     AISpec |-> Tlv(183, <<V16>>), AISpecStopTrigger |-> Tlv(184, <<8, 32>>),
     TagObservationTrigger |-> Tlv(185, <<8, -8, 16, 16, 16, 32>>)]

InventoryAndAccessParams ==
    [InventoryParameterSpec |-> Tlv(186, <<16, 8>>), RFSurveySpec |-> Tlv(187, <<16, 32, 32>>),
     RFSurveySpecStopTrigger |-> Tlv(188, <<8, 32, 32>>),
     AccessSpec |-> Tlv(207, <<32, 16, 8, 1, -7, 32>>),
     AccessSpecStopTrigger |-> Tlv(208, <<8, 16>>), AccessCommand |-> Tlv(209, <<>>)]

ConfigurationParams ==
    [LLRPConfigurationStateValue |-> Tlv(217, <<32>>), Identification |-> Tlv(218, <<8, V8>>),
     GPOWriteData |-> Tlv(219, <<16, 1, -7>>), KeepaliveSpec |-> Tlv(220, <<8, 32>>),
     AntennaProperties |-> Tlv(221, <<1, -7, 16, 16>>), AntennaConfiguration |-> Tlv(222, <<16>>)]

RadioAndReportParams ==
    [RFReceiver |-> Tlv(223, <<16>>), RFTransmitter |-> Tlv(224, <<16, 16, 16>>),
     GPIPortCurrentState |-> Tlv(225, <<16, 1, -7, 8>>), EventsAndReports |-> Tlv(226, <<1, -7>>),
     ROReportSpec |-> Tlv(237, <<8, 16>>)]

TagReportParams ==
    [TagReportContentSelector |-> Tlv(238, <<1, 1, 1, 1, 1, 1, 1, 1, 1, 1, -6>>),
     AccessReportSpec |-> Tlv(239, <<8>>), TagReportData |-> Tlv(240, <<>>),
     EPCData |-> Tlv(241, <<V1>>), EPC_96 |-> Tv(13, <<96>>), ROSpecID |-> Tv(9, <<32>>)]

TagFieldParams ==
    [SpecIndex |-> Tv(14, <<16>>), InventoryParameterSpecID |-> Tv(10, <<16>>),
     AntennaID |-> Tv(1, <<16>>), PeakRSSI |-> Tv(6, <<8>>), ChannelIndex |-> Tv(7, <<16>>),
     FirstSeenTimestampUTC |-> Tv(2, <<64>>), FirstSeenTimestampUptime |-> Tv(3, <<64>>)]

TagFieldAndSurveyParams ==
    [LastSeenTimestampUTC |-> Tv(4, <<64>>), LastSeenTimestampUptime |-> Tv(5, <<64>>),
     TagSeenCount |-> Tv(8, <<16>>), AccessSpecID |-> Tv(16, <<32>>),
     RFSurveyReportData |-> Tlv(242, <<>>), FrequencyRSSILevelEntry |-> Tlv(243, <<32, 32, 8, 8>>),
     ReaderEventNotificationSpec |-> Tlv(244, <<>>)]

EventParams ==
    [EventNotificationState |-> Tlv(245, <<16, 1, -7>>),
     ReaderEventNotificationData |-> Tlv(246, <<>>), HoppingEvent |-> Tlv(247, <<16, 16>>),
     GPIEvent |-> Tlv(248, <<16, 1, -7>>), ROSpecEvent |-> Tlv(249, <<8, 32, 32>>),
     ReportBufferLevelWarningEvent |-> Tlv(250, <<8>>),
     ReportBufferOverflowErrorEvent |-> Tlv(251, <<>>)]

ExceptionAndConnectionParams ==
    [ReaderExceptionEvent |-> Tlv(252, <<V8>>), OpSpecID |-> Tv(17, <<16>>),
     RFSurveyEvent |-> Tlv(253, <<8, 32, 16>>), AISpecEvent |-> Tlv(254, <<8, 32, 16>>),
     AntennaEvent |-> Tlv(255, <<8, 16>>), ConnectionAttemptEvent |-> Tlv(256, <<16>>),
     ConnectionCloseEvent |-> Tlv(257, <<>>)]

StatusParams ==
    [LLRPStatus |-> Tlv(287, <<16, V8>>), FieldError |-> Tlv(288, <<16, 16>>),
     ParameterError |-> Tlv(289, <<16, 16>>), C1G2LLRPCapabilities |-> Tlv(327, <<1, 1, -6, 16>>),
     C1G2UHFRFModeTable |-> Tlv(328, <<>>)]

C1G2InventoryParams ==
    [C1G2UHFRFModeTableEntry |-> Tlv(329, <<32, 1, 1, -6, 8, 8, 8, 32, 32, 32, 32, 32>>),
     C1G2InventoryCommand |-> Tlv(330, <<1, -7>>), C1G2Filter |-> Tlv(331, <<2, -6>>),
     C1G2TagInventoryMask |-> Tlv(332, <<2, -6, 16, V1>>),
     C1G2TagInventoryStateAwareFilterAction |-> Tlv(333, <<8, 8>>)]

C1G2SingulationParams ==
    [C1G2TagInventoryStateUnawareFilterAction |-> Tlv(334, <<8>>),
     C1G2RFControl |-> Tlv(335, <<16, 16>>),
     C1G2SingulationControl |-> Tlv(336, <<2, -6, 16, 32>>),
     C1G2TagInventoryStateAwareSingulationAction |-> Tlv(337, <<1, 1, -6>>),
     C1G2TagSpec |-> Tlv(338, <<>>), C1G2TargetTag |-> Tlv(339, <<2, 1, -5, 16, V1, V1>>)]

C1G2OpParams ==
    [C1G2Read |-> Tlv(341, <<16, 32, 2, -6, 16, 16>>),
     C1G2Write |-> Tlv(342, <<16, 32, 2, -6, 16, V16>>), C1G2Kill |-> Tlv(343, <<16, 32>>),
     C1G2Lock |-> Tlv(344, <<16, 32>>), C1G2LockPayload |-> Tlv(345, <<8, 8>>)]

C1G2BlockParams ==
    [C1G2BlockErase |-> Tlv(346, <<16, 32, 2, -6, 16, 16>>),
     C1G2BlockWrite |-> Tlv(347, <<16, 32, 2, -6, 16, V16>>),
     C1G2EPCMemorySelector |-> Tlv(348, <<1, 1, -6>>), C1G2_PC |-> Tv(12, <<16>>),
     C1G2_CRC |-> Tv(11, <<16>>)]

C1G2ResultParams ==
    [C1G2SingulationDetails |-> Tv(18, <<16, 16>>),
     C1G2ReadOpSpecResult |-> Tlv(349, <<8, 16, V16>>),
     C1G2WriteOpSpecResult |-> Tlv(350, <<8, 16, 16>>),
     C1G2KillOpSpecResult |-> Tlv(351, <<8, 16>>), C1G2LockOpSpecResult |-> Tlv(352, <<8, 16>>),
     C1G2BlockEraseOpSpecResult |-> Tlv(353, <<8, 16>>)]

C1G2LastResultParams ==
    [C1G2BlockWriteOpSpecResult |-> Tlv(354, <<8, 16, 16>>)]

\* The _SLOTS of the parameters that contain parameters.
ReaderSlots ==
    [GeneralDeviceCapabilities |-> <<Some({"ReceiveSensitivityTableEntry"}),
           Many({"PerAntennaReceiveSensitivityRange"}), Req({"GPIOCapabilities"}),
           Some({"PerAntennaAirProtocol"})>>,
     RegulatoryCapabilities |-> <<Opt({"UHFBandCapabilities"}), Customs>>,
     UHFBandCapabilities |-> <<Some({"TransmitPowerLevelTableEntry"}),
           Req({"FrequencyInformation"}), Some({"C1G2UHFRFModeTable"})>>,
     FrequencyInformation |-> <<Many({"FrequencyHopTable"}), Opt({"FixedFrequencyTable"})>>,
     ROSpec |-> <<Req({"ROBoundarySpec"}), Some({"AISpec", "RFSurveySpec", "CustomParameter"}),
           Opt({"ROReportSpec"})>>,
     ROBoundarySpec |-> <<Req({"ROSpecStartTrigger"}), Req({"ROSpecStopTrigger"})>>,
     ROSpecStartTrigger |-> <<Opt({"PeriodicTriggerValue"}), Opt({"GPITriggerValue"})>>,
     PeriodicTriggerValue |-> <<Opt({"UTCTimestamp"})>>,
     ROSpecStopTrigger |-> <<Opt({"GPITriggerValue"})>>,
     AISpec |-> <<Req({"AISpecStopTrigger"}), Some({"InventoryParameterSpec"}), Customs>>,
     AISpecStopTrigger |-> <<Opt({"GPITriggerValue"}), Opt({"TagObservationTrigger"})>>,
     InventoryParameterSpec |-> <<Many({"AntennaConfiguration"}), Customs>>,
     RFSurveySpec |-> <<Req({"RFSurveySpecStopTrigger"}), Customs>>,
     AccessSpec |-> <<Req({"AccessSpecStopTrigger"}), Req({"AccessCommand"}),
           Opt({"AccessReportSpec"}), Customs>>,
     AccessCommand |-> <<Req({"C1G2TagSpec"}), Some({"C1G2Read", "C1G2Write", "C1G2Kill",
           "C1G2Lock", "C1G2BlockErase", "C1G2BlockWrite"}), Customs>>,
     AntennaConfiguration |-> <<Opt({"RFReceiver"}), Opt({"RFTransmitter"}),
           Many({"C1G2InventoryCommand"})>>,
     ROReportSpec |-> <<Req({"TagReportContentSelector"}), Customs>>,
     TagReportContentSelector |-> <<Many({"C1G2EPCMemorySelector"})>>,
     TagReportData |-> <<Req({"EPCData", "EPC_96"}), Opt({"ROSpecID"}), Opt({"SpecIndex"}),
           Opt({"InventoryParameterSpecID"}), Opt({"AntennaID"}), Opt({"PeakRSSI"}),
           Opt({"ChannelIndex"}), Opt({"FirstSeenTimestampUTC"}), Opt({"FirstSeenTimestampUptime"}),
           Opt({"LastSeenTimestampUTC"}), Opt({"LastSeenTimestampUptime"}), Opt({"TagSeenCount"}),
           Many({"C1G2_PC", "C1G2_CRC"}), Opt({"AccessSpecID"}), Many({"C1G2ReadOpSpecResult",
           "C1G2WriteOpSpecResult", "C1G2KillOpSpecResult", "C1G2LockOpSpecResult",
           "C1G2BlockEraseOpSpecResult", "C1G2BlockWriteOpSpecResult"}), Customs>>,
     RFSurveyReportData |-> <<Opt({"ROSpecID"}), Opt({"SpecIndex"}),
           Some({"FrequencyRSSILevelEntry"}), Customs>>,
     FrequencyRSSILevelEntry |-> <<Req({"UTCTimestamp", "Uptime"})>>,
     ReaderEventNotificationSpec |-> <<Some({"EventNotificationState"})>>,
     ReaderEventNotificationData |-> <<Req({"UTCTimestamp", "Uptime"}), Opt({"HoppingEvent"}),
           Opt({"GPIEvent"}), Opt({"ROSpecEvent"}), Opt({"ReportBufferLevelWarningEvent"}),
           Opt({"ReportBufferOverflowErrorEvent"}), Opt({"ReaderExceptionEvent"}), Opt({"RFSurveyEvent"}),
           Opt({"AISpecEvent"}), Opt({"AntennaEvent"}), Opt({"ConnectionAttemptEvent"}),
           Opt({"ConnectionCloseEvent"}), Customs>>,
     ReaderExceptionEvent |-> <<Opt({"ROSpecID"}), Opt({"SpecIndex"}),
           Opt({"InventoryParameterSpecID"}), Opt({"AntennaID"}), Opt({"AccessSpecID"}),
           Opt({"OpSpecID"}), Customs>>,
     AISpecEvent |-> <<Opt({"C1G2SingulationDetails"})>>,
     LLRPStatus |-> <<Opt({"FieldError"}), Opt({"ParameterError"})>>,
     ParameterError |-> <<Opt({"FieldError"}), Opt({"ParameterError"})>>,
     C1G2UHFRFModeTable |-> <<Some({"C1G2UHFRFModeTableEntry"})>>]

C1G2Slots ==
    [C1G2InventoryCommand |-> <<Many({"C1G2Filter"}), Opt({"C1G2RFControl"}),
           Opt({"C1G2SingulationControl"}), Customs>>,
     C1G2Filter |-> <<Req({"C1G2TagInventoryMask"}),
           Opt({"C1G2TagInventoryStateAwareFilterAction"}),
           Opt({"C1G2TagInventoryStateUnawareFilterAction"})>>,
     C1G2SingulationControl |-> <<Opt({"C1G2TagInventoryStateAwareSingulationAction"})>>,
     C1G2TagSpec |-> <<Some({"C1G2TargetTag"})>>, C1G2Lock |-> <<Some({"C1G2LockPayload"})>>]

Params ==
    DeviceParams @@ CapabilityParams @@ FrequencyAndROSpecParams
    @@ AISpecParams @@ InventoryAndAccessParams @@ ConfigurationParams
    @@ RadioAndReportParams @@ TagReportParams @@ TagFieldParams
    @@ TagFieldAndSurveyParams @@ EventParams @@ ExceptionAndConnectionParams
    @@ StatusParams @@ C1G2InventoryParams @@ C1G2SingulationParams
    @@ C1G2OpParams @@ C1G2BlockParams @@ C1G2ResultParams
    @@ C1G2LastResultParams

ParamSlots == ReaderSlots @@ C1G2Slots

==============================================================================
